---- MODULE Spec2Model ----
(***************************************************************************)
(* Model of the SQL script engine, load-plan builder and loader of         *)
(* savh_etl:                                                               *)
(*   load/ddl.py            _split_sql_statements, DDLRunner, run_sql_files, *)
(*                          sync_identity_sequences                        *)
(*   load/load_strategy.py  _toposort, LoadPlan, build_savh_load_plan       *)
(*   load/load.py           load, _load_one, _validate_and_align_df         *)
(*   io/pg_client.py        drop_schema, create_schema, write_dataframe     *)
(* Texts are sequences of one-character strings; the character U+FEFF is   *)
(* written "BOM".                                                           *)
(***************************************************************************)
EXTENDS Integers, Sequences, FiniteSets, TLC

VARIABLES
    phase,      \* which operation has run: "input" | "split" | "plan" | ...
    sql,        \* the text handed to _split_sql_statements
    scan,       \* the splitter's final state and its history, once it has run
    specs,      \* the TableSpecs handed to LoadPlan
    plan,       \* the outcome of LoadPlan(specs), once it has run
    runner,     \* "ddl" (DDLRunner.run) | "sql" (run_sql_files) | "none"
    cfg,        \* the runner's arguments and fields
    files,      \* the listed script files: [exists, text]
    pc,         \* the runner's position
    fi,         \* index of the current file (for fname in ...)
    stmts,      \* statements of the current file
    si,         \* index of the current statement (idx)
    db,         \* the connection's transaction and the database
    conn_autocommit, \* conn.autocommit
    err,        \* the exception raised, "none" when none
    log,        \* history: the statements sent to the database, in order
    ran,        \* history: the files whose statements were run, in order
    args,       \* load(): its keyword arguments
    skip_specs, \* load(): the tables whose TableSpec of the plan has mode SKIP
    dict_df,    \* load(): the dataset map, in key order: [key, columns, rows]
    pg,         \* load(): the database: its tables and their rows
    lpc,        \* load(): position
    ddl_needed, \* load(): ddl_needed
    load_plan,  \* load(): plan, once build_savh_load_plan() has returned
    li,         \* load(): index of the current loop
    loaded_tables, \* load(): loaded_tables
    loaded_keys,   \* load(): loaded_keys
    rows_by_table, \* load(): rows_by_table
    outcome,    \* load(): the LoadResult returned or the exception raised
    ops,        \* history: the database operations of load(), in order
    idents,     \* the schema and table names a statement is built from
    statement   \* the SQL statement built from idents, once it is built

splitVars == <<sql, scan>>
planVars  == <<specs, plan>>
runVars   == <<runner, cfg, files, pc, fi, stmts, si, db, conn_autocommit,
               err, log, ran>>

loadVars  == <<args, skip_specs, dict_df, pg, lpc, ddl_needed, load_plan, li,
               loaded_tables, loaded_keys, rows_by_table, outcome, ops>>

quoteVars == <<idents, statement>>

others    == <<phase, splitVars, planVars, loadVars, quoteVars>>

vars == <<phase, splitVars, planVars, runVars, loadVars, quoteVars>>

-----------------------------------------------------------------------------
(* Characters *)

SQ  == "'"
DQ  == "\""
NL  == "\n"
SP  == " "
BOM == "BOM"

Letters ==
    {"a","b","c","d","e","f","g","h","i","j","k","l","m",
     "n","o","p","q","r","s","t","u","v","w","x","y","z",
     "A","B","C","D","E","F","G","H","I","J","K","L","M",
     "N","O","P","Q","R","S","T","U","V","W","X","Y","Z"}

Digits == {"0","1","2","3","4","5","6","7","8","9"}

\* str.isalnum() of one character
IsAlnum(c) == c \in Letters \cup Digits

\* the characters str.strip() removes
IsSpace(c) == c \in {SP, NL, "\t", "\r", "\f"}

-----------------------------------------------------------------------------
(* Text helpers *)

RECURSIVE ReplaceBOM(_)
\* sql.replace(U+FEFF, ""): every U+FEFF of the text is removed
ReplaceBOM(t) ==
    IF t = <<>> THEN <<>>
    ELSE IF Head(t) = BOM THEN ReplaceBOM(Tail(t))
    ELSE <<Head(t)>> \o ReplaceBOM(Tail(t))

RECURSIVE LeadCount(_, _)
\* number of leading elements of t that lie in the set cs
LeadCount(t, cs) ==
    IF t = <<>> \/ Head(t) \notin cs THEN 0
    ELSE 1 + LeadCount(Tail(t), cs)

RECURSIVE TrailCount(_, _)
\* number of trailing elements of t that lie in the set cs
TrailCount(t, cs) ==
    IF t = <<>> \/ t[Len(t)] \notin cs THEN 0
    ELSE 1 + TrailCount(SubSeq(t, 1, Len(t) - 1), cs)

\* str.strip(cs): leading and trailing characters of cs removed
StripChars(t, cs) ==
    LET l == LeadCount(t, cs)
    IN IF l = Len(t) THEN <<>>
       ELSE SubSeq(t, l + 1, Len(t) - TrailCount(t, cs))

RECURSIVE Flatten(_)
\* the concatenation of a sequence of texts
Flatten(ts) == IF ts = <<>> THEN <<>> ELSE Head(ts) \o Flatten(Tail(ts))

WhiteSpace == {SP, NL, "\t", "\r", "\f"}

\* str.strip()
Strip(t) == StripChars(t, WhiteSpace)

\* sql.startswith(tag, i), with i counted from 1
StartsWith(t, tag, i) ==
    /\ i + Len(tag) - 1 <= Len(t)
    /\ SubSeq(t, i, i + Len(tag) - 1) = tag

-----------------------------------------------------------------------------
(* _split_sql_statements *)

\* dollar_tag = None
NoTag == <<>>

\* the local variables of _split_sql_statements before the loop
ScanInit ==
    [ i |-> 1, buf |-> <<>>, out |-> <<>>,
      in_sq |-> FALSE, in_dq |-> FALSE,
      in_line_comment |-> FALSE, in_block_comment |-> FALSE,
      dollar_tag |-> NoTag,
      line |-> 1, stmt_start_line |-> 1, started |-> FALSE ]

\* the test of flush(): the stripped buffer is emitted when something is left
\* of it after stripping blanks and semicolons
FlushKeeps(s) == s # <<>> /\ StripChars(Strip(s), {";"}) # <<>>

\* flush()
Flush(s) ==
    LET t == Strip(s.buf)
    IN [s EXCEPT
          !.out = IF FlushKeeps(t)
                  THEN Append(@, [sql |-> t, start_line |-> s.stmt_start_line])
                  ELSE @,
          !.buf = <<>>,
          !.started = FALSE]

\* the inner while, were it to run over every character up to the next "$"
RECURSIVE TagEnd_AnyChar(_, _)
TagEnd_AnyChar(t, j) ==
    IF j <= Len(t) /\ t[j] # "$" THEN TagEnd_AnyChar(t, j + 1) ELSE j

RECURSIVE TagEnd(_, _)
\* the inner while of the dollar-quote start: j runs over identifier characters
TagEnd(t, j) ==
    IF j <= Len(t) /\ t[j] # "$" /\ (IsAlnum(t[j]) \/ t[j] = "_")
    THEN TagEnd(t, j + 1)
    ELSE j

\* the delimiter test without its double-quote condition
IsDelimiter_IgnoringDq(ch, s) == ch = ";" /\ ~s.in_sq

\* the delimiter test
IsDelimiter(ch, s) == ch = ";" /\ ~s.in_sq /\ ~s.in_dq

\* one iteration of the while loop, for the character at s.i
ScanStep(t, s0) ==
    LET n   == Len(t)
        ch  == t[s0.i]
        nxt == IF s0.i + 1 <= n THEN t[s0.i + 1] ELSE ""
        ln  == IF ch = NL THEN s0.line + 1 ELSE s0.line
        s   == [s0 EXCEPT
                  !.line = ln,
                  !.stmt_start_line = IF ~s0.started THEN ln ELSE @,
                  !.started = TRUE]
        j   == TagEnd(t, s.i + 1)
    IN
    IF s.in_line_comment THEN
        [s EXCEPT !.buf = Append(@, ch),
                  !.in_line_comment = (ch # NL),
                  !.i = @ + 1]
    ELSE IF s.in_block_comment THEN
        IF ch = "*" /\ nxt = "/"
        THEN [s EXCEPT !.buf = @ \o <<ch, nxt>>,
                       !.in_block_comment = FALSE,
                       !.i = @ + 2]
        ELSE [s EXCEPT !.buf = Append(@, ch), !.i = @ + 1]
    ELSE IF s.dollar_tag # NoTag THEN
        IF ch = "$" /\ StartsWith(t, s.dollar_tag, s.i)
        THEN [s EXCEPT !.buf = @ \o s.dollar_tag,
                       !.i = @ + Len(s.dollar_tag),
                       !.dollar_tag = NoTag]
        ELSE [s EXCEPT !.buf = Append(@, ch), !.i = @ + 1]
    ELSE IF ~s.in_sq /\ ~s.in_dq /\ ch = "-" /\ nxt = "-" THEN
        [s EXCEPT !.buf = @ \o <<ch, nxt>>,
                  !.in_line_comment = TRUE,
                  !.i = @ + 2]
    ELSE IF ~s.in_sq /\ ~s.in_dq /\ ch = "/" /\ nxt = "*" THEN
        [s EXCEPT !.buf = @ \o <<ch, nxt>>,
                  !.in_block_comment = TRUE,
                  !.i = @ + 2]
    ELSE IF ch = SQ /\ ~s.in_dq THEN
        IF s.in_sq /\ nxt = SQ
        THEN [s EXCEPT !.buf = @ \o <<ch, nxt>>, !.i = @ + 2]
        ELSE [s EXCEPT !.buf = Append(@, ch),
                       !.in_sq = ~s.in_sq,
                       !.i = @ + 1]
    ELSE IF ch = DQ /\ ~s.in_sq THEN
        [s EXCEPT !.buf = Append(@, ch),
                  !.in_dq = ~s.in_dq,
                  !.i = @ + 1]
    ELSE IF ch = "$" /\ ~s.in_sq /\ ~s.in_dq /\ j <= n /\ t[j] = "$" THEN
        [s EXCEPT !.buf = @ \o SubSeq(t, s.i, j),
                  !.dollar_tag = SubSeq(t, s.i, j),
                  !.i = j + 1]
    ELSE IF IsDelimiter(ch, s) THEN
        [Flush([s EXCEPT !.buf = Append(@, ch)]) EXCEPT !.i = @ + 1]
    ELSE
        [s EXCEPT !.buf = Append(@, ch), !.i = @ + 1]

-----------------------------------------------------------------------------
(* The scan with its history.  The history (cls, cuts, spans) is read off   *)
(* the scanner's states before and after each iteration; the scanner never  *)
(* reads it.                                                                *)

\* the lexical region the scanner is in
Mode(s) ==
    IF s.in_line_comment THEN "lc"
    ELSE IF s.in_block_comment THEN "bc"
    ELSE IF s.dollar_tag # NoTag THEN "dollar"
    ELSE IF s.in_sq THEN "sq"
    ELSE IF s.in_dq THEN "dq"
    ELSE "code"

\* the region of the characters an iteration consumed: the region it was in,
\* or, for the opening delimiter of a region, the region it opens
ClassOf(s, s2) == IF Mode(s) # "code" THEN Mode(s) ELSE Mode(s2)

\* the positions of the stripped text of the buffer t[lo..hi]
SpanOf(t, lo, hi) ==
    LET b == SubSeq(t, lo, hi)
        l == LeadCount(b, WhiteSpace)
    IN [lo |-> lo + l, hi |-> lo + l + Len(Strip(b)) - 1]

HistInit == [cls |-> <<>>, cuts |-> <<>>, spans |-> <<>>, bstart |-> 1]

RECURSIVE ScanLoop(_, _, _)
ScanLoop(t, s, h) ==
    IF s.i > Len(t)
    THEN \* the flush() after the loop
         LET s2 == Flush(s)
             bs == IF s.started THEN h.bstart ELSE Len(t) + 1
         IN [st |-> s2,
             cls |-> h.cls,
             cuts |-> h.cuts,
             spans |-> IF Len(s2.out) > Len(s.out)
                       THEN Append(h.spans, SpanOf(t, bs, Len(t)))
                       ELSE h.spans,
             text |-> t]
    ELSE LET s2 == ScanStep(t, s)
             bs == IF s.started THEN h.bstart ELSE s.i
             c  == ClassOf(s, s2)
             flushed == ~s2.started
         IN ScanLoop(t, s2,
              [cls |-> h.cls \o [k \in 1..(s2.i - s.i) |-> c],
               cuts |-> IF flushed
                        THEN Append(h.cuts, [pos |-> s.i, mode |-> Mode(s),
                                             emitted |-> Len(s2.out) > Len(s.out)])
                        ELSE h.cuts,
               spans |-> IF Len(s2.out) > Len(s.out)
                         THEN Append(h.spans, SpanOf(t, bs, s2.i - 1))
                         ELSE h.spans,
               bstart |-> bs])

\* the loop over a text, with no BOM removal: the scanner used as a lexer
Lex(t) == ScanLoop(t, ScanInit, HistInit)

\* _split_sql_statements(sql)
SplitSqlStatements(t) == Lex(ReplaceBOM(t))

-----------------------------------------------------------------------------
(* _toposort and LoadPlan.  A TableSpec is [name, depends_on]; depends_on   *)
(* is the set of the names of its tuple.  A dict is a function together     *)
(* with the sequence of its keys in insertion order.                        *)

\* the keys of {s.name: ... for s in specs_list}, in insertion order
DictKeys(ss) ==
    LET first == SelectSeq([k \in 1..Len(ss) |-> k],
                           LAMBDA k : \A j \in 1..(k - 1) : ss[j].name # ss[k].name)
    IN [i \in 1..Len(first) |-> ss[first[i]].name]

NameSet(ss) == { ss[k].name : k \in 1..Len(ss) }

\* the value a dict comprehension over specs_list keeps for name nm: that of
\* the last spec of that name
LastNamed(ss, nm) ==
    ss[CHOOSE k \in 1..Len(ss) :
          /\ ss[k].name = nm
          /\ \A m \in (k + 1)..Len(ss) : ss[m].name # nm]

\* by_name
ByName(ss) == [nm \in NameSet(ss) |-> LastNamed(ss, nm)]

\* incoming before the loop
IncomingInit(ss) == [nm \in NameSet(ss) |-> LastNamed(ss, nm).depends_on]

\* the first (spec, dependency) pair whose dependency is not in by_name, in
\* list order; <<>> when there is none
RECURSIVE FirstMissing(_, _)
FirstMissing(ss, k) ==
    IF k > Len(ss) THEN <<>>
    ELSE LET bad == ss[k].depends_on \ NameSet(ss)
         IN IF bad # {}
            THEN <<[dep |-> CHOOSE d \in bad : TRUE, required_by |-> ss[k].name]>>
            ELSE FirstMissing(ss, k + 1)

\* ready before the loop
RECURSIVE ReadyInit(_, _)
ReadyInit(keys, incoming) ==
    IF keys = <<>> THEN <<>>
    ELSE (IF incoming[Head(keys)] = {} THEN <<Head(keys)>> ELSE <<>>)
         \o ReadyInit(Tail(keys), incoming)

\* a node joins ready when its last dependency is removed, in every case
BecomesReady_Always(rest) == TRUE

\* a node joins ready when its last dependency is removed
BecomesReady(rest) == rest = {}

\* for m in incoming: n is removed from the dependencies of m
RECURSIVE Release(_, _, _)
Release(keys, n, ir) ==
    IF keys = <<>> THEN ir
    ELSE LET m == Head(keys)
         IN IF n \in ir.incoming[m]
            THEN LET rest == ir.incoming[m] \ {n}
                 IN Release(Tail(keys), n,
                      [incoming |-> [ir.incoming EXCEPT ![m] = rest],
                       ready    |-> IF BecomesReady(rest)
                                    THEN Append(ir.ready, m)
                                    ELSE ir.ready])
            ELSE Release(Tail(keys), n, ir)

\* while ready: n = ready.pop(); ordered.append(by_name[n]); ...
RECURSIVE KahnLoop(_, _, _, _)
KahnLoop(ss, keys, ir, ordered) ==
    IF ir.ready = <<>> THEN [incoming |-> ir.incoming, ordered |-> ordered]
    ELSE LET n == ir.ready[Len(ir.ready)]
         IN KahnLoop(ss, keys,
                     Release(keys, n,
                             [incoming |-> ir.incoming,
                              ready |-> SubSeq(ir.ready, 1, Len(ir.ready) - 1)]),
                     Append(ordered, ByName(ss)[n]))

\* an entry of incoming is reported when it has every value
Reported_All(deps) == TRUE

\* an entry of incoming is reported when dependencies are left in it
Reported(deps) == deps # {}

\* _toposort(specs): the ordered list, or the LoadPlanError raised
Toposort(ss) ==
    LET keys == DictKeys(ss)
        miss == FirstMissing(ss, 1)
        fin  == KahnLoop(ss, keys,
                         [incoming |-> IncomingInit(ss),
                          ready |-> ReadyInit(keys, IncomingInit(ss))],
                         <<>>)
    IN IF miss # <<>>
       THEN [error |-> "missing", order |-> <<>>,
             dep |-> miss[1].dep, required_by |-> miss[1].required_by,
             cyclic |-> {}]
       ELSE IF Len(fin.ordered) # Len(ss)
       THEN [error |-> "cycle", order |-> <<>>, dep |-> "", required_by |-> "",
             cyclic |-> { <<nm, fin.incoming[nm]>> :
                            nm \in { x \in NameSet(ss) : Reported(fin.incoming[x]) } }]
       ELSE [error |-> "none", order |-> fin.ordered, dep |-> "",
             required_by |-> "", cyclic |-> {}]

\* LoadPlan(specs).__post_init__: order = tuple(_toposort(specs))
LoadPlanOrder(ss) == Toposort(ss)

NoPlan == [error |-> "unbuilt", order |-> <<>>, dep |-> "", required_by |-> "",
           cyclic |-> {}]

PlanIdle == specs = <<>> /\ plan = NoPlan

(* Inputs of the plan builder *)

\* the most TableSpecs of one plan
MaxSpecs == 3

TableNames == {"A", "B", "C"}

\* a name no TableSpec has
UnknownName == "Z"

DependsOnSets == (SUBSET TableNames) \cup {{UnknownName}}

TableSpecs == [name : TableNames, depends_on : DependsOnSets]

SpecLists == UNION { [1..k -> TableSpecs] : k \in 0..MaxSpecs }

\* the splitter has not been called
NotRun == [st |-> ScanInit, cls |-> <<>>, cuts |-> <<>>, spans |-> <<>>, text |-> <<>>]

\* no text is being split
SplitIdle == sql = <<>> /\ scan = NotRun

\* no statement has been built
NoStatement == [kind |-> "none", text |-> <<>>]

\* no statement is being built
QuoteIdle == idents = [schema |-> <<>>, table |-> <<>>] /\ statement = NoStatement

\* load() has not been called
NoArgs == [load_mode |-> "drop_create", ddl_only |-> FALSE,
           drop_extra_columns |-> TRUE, analyze |-> FALSE]

NoDatabase == [tables |-> {}, rows |-> <<>>, columns |-> <<>>]

LoadIdle ==
    /\ args = NoArgs
    /\ skip_specs = {}
    /\ dict_df = <<>>
    /\ pg = NoDatabase
    /\ lpc = "idle"
    /\ ddl_needed = FALSE
    /\ load_plan = NoPlan
    /\ li = 0
    /\ loaded_tables = <<>>
    /\ loaded_keys = {}
    /\ rows_by_table = <<>>
    /\ outcome = "none"
    /\ ops = <<>>

-----------------------------------------------------------------------------
(* The database behind a connection: PostgreSQL's transactions.             *)
(* status is "idle" (no transaction), "open" or "failed" (a statement of    *)
(* the transaction raised: every later statement is refused with SQLSTATE   *)
(* 25P02 until a rollback, which is why _run_file wraps each statement in a *)
(* savepoint "para poder continuar en Postgres").  pending holds the        *)
(* effects of the open transaction, committed the durable ones, sps the     *)
(* stack of savepoints, each with the pending effects it would restore.     *)

DbInit == [status |-> "idle", pending |-> {}, committed |-> {}, sps |-> <<>>]

InFailedTransaction == "25P02"

\* a call's outcome: the database after it and the SQLSTATE raised ("" if none)
Outcome(d, state) == [db |-> d, sqlstate |-> state]

\* cur.execute / conn.exec_driver_sql of a script statement with effect eff
\* that by itself raises SQLSTATE fails ("" when it succeeds)
DbExecute(d, eff, fails, autocommit) ==
    IF autocommit THEN
        IF fails = ""
        THEN Outcome([d EXCEPT !.committed = @ \cup {eff}], "")
        ELSE Outcome(d, fails)
    ELSE IF d.status = "failed" THEN Outcome(d, InFailedTransaction)
    ELSE IF fails = ""
    THEN Outcome([d EXCEPT !.status = "open", !.pending = @ \cup {eff}], "")
    ELSE Outcome([d EXCEPT !.status = "failed"], fails)

HasSavepoint(d, name) == \E k \in 1..Len(d.sps) : d.sps[k].name = name

\* the topmost savepoint of that name
SavepointIndex(d, name) ==
    CHOOSE k \in 1..Len(d.sps) :
        /\ d.sps[k].name = name
        /\ \A m \in (k + 1)..Len(d.sps) : d.sps[m].name # name

\* SAVEPOINT name
DbSavepoint(d, name) ==
    IF d.status = "failed" THEN Outcome(d, InFailedTransaction)
    ELSE Outcome([d EXCEPT !.status = "open",
                           !.sps = Append(@, [name |-> name, pending |-> d.pending])],
                 "")

\* a RELEASE SAVEPOINT that leaves the savepoint in place
DbRelease_Keeps(d, name) ==
    IF d.status = "failed" THEN Outcome(d, InFailedTransaction) ELSE Outcome(d, "")

\* RELEASE SAVEPOINT name
DbRelease(d, name) ==
    IF d.status = "failed" THEN Outcome(d, InFailedTransaction)
    ELSE IF ~HasSavepoint(d, name) THEN Outcome([d EXCEPT !.status = "failed"], "3B001")
    ELSE Outcome([d EXCEPT !.sps = SubSeq(@, 1, SavepointIndex(d, name) - 1)], "")

\* ROLLBACK TO SAVEPOINT name
DbRollbackTo(d, name) ==
    IF ~HasSavepoint(d, name) THEN Outcome([d EXCEPT !.status = "failed"], "3B001")
    ELSE LET k == SavepointIndex(d, name)
         IN Outcome([d EXCEPT !.status = "open",
                              !.pending = d.sps[k].pending,
                              !.sps = SubSeq(@, 1, k)],
                    "")

\* conn.commit(): COMMIT of a failed transaction rolls it back
DbCommit(d) ==
    [d EXCEPT !.committed = IF d.status = "open" THEN @ \cup d.pending ELSE @,
              !.pending = {}, !.sps = <<>>, !.status = "idle"]

\* a rollback that keeps the transaction's effects
DbRollback_Keeps(d) ==
    [d EXCEPT !.committed = @ \cup d.pending,
              !.pending = {}, !.sps = <<>>, !.status = "idle"]

\* conn.rollback()
DbRollback(d) == [d EXCEPT !.pending = {}, !.sps = <<>>, !.status = "idle"]

-----------------------------------------------------------------------------
(* Script files.  A statement's behaviour is told by its first character:  *)
(* g succeeds; b raises SQLSTATE 42601; i raises SQLSTATE 42710            *)
(* (duplicate_object, the example of ignore_sqlstates); a backslash opens a *)
(* psql meta command.                                                       *)

GoodStmt      == <<"g", ";">>
BadStmt       == <<"b", ";">>
DuplicateStmt == <<"i", ";">>
MetaStmt      == <<"\\", "d", ";">>

DuplicateObject == "42710"
SyntaxError     == "42601"

\* the SQLSTATE the statement raises when executed in a sound transaction
Raises(text) ==
    IF text[1] = "b" THEN SyntaxError
    ELSE IF text[1] = "i" THEN DuplicateObject
    ELSE ""

\* stmt_clean.startswith("\\")
IsMetaCommand(text) == text # <<>> /\ text[1] = "\\"

MissingFile == [exists |-> FALSE, text |-> <<>>]

\* the statements of a file: _split_sql_statements(fpath.read_text())
StatementsOf(f) == SplitSqlStatements(f.text).st.out

\* stmt_clean = st.sql.strip()
StmtClean(st) == Strip(st.sql)

RunIdle ==
    /\ runner = "none"
    /\ cfg = [fail_fast |-> TRUE, skip_missing |-> FALSE, autocommit |-> FALSE,
              dir_exists |-> TRUE, ignore_sqlstates |-> {}]
    /\ files = <<>>
    /\ pc = "idle"
    /\ fi = 0
    /\ stmts = <<>>
    /\ si = 0
    /\ db = DbInit
    /\ conn_autocommit = FALSE
    /\ err = "none"
    /\ log = <<>>
    /\ ran = <<>>

\* the position after statement si: the next statement, or the end of the
\* file's loop
AfterStatement ==
    IF si + 1 > Len(stmts)
    THEN pc' = "commit" /\ si' = si + 1
    ELSE pc' = "stmt" /\ si' = si + 1

Logged(result) == Append(log, [file |-> fi, idx |-> si, result |-> result])

-----------------------------------------------------------------------------
(* DDLRunner.run and DDLRunner._run_file, one database call per step *)

\* the file the loop turns to after a missing file was skipped, were the
\* loop left there
AfterSkippedFile_Break(k, n) == n + 1

\* the file the loop turns to after a missing file was skipped (continue)
AfterSkippedFile(k, n) == k + 1

\* each statement gets a savepoint: never
UsesSavepoint_Never(fail_fast, is_autocommit) == FALSE

\* each statement gets a savepoint: (not self.fail_fast) and (not is_autocommit)
UsesSavepoint(fail_fast, is_autocommit) == ~fail_fast /\ ~is_autocommit

\* run(): the directory check and conn.autocommit = autocommit
DdlStart ==
    /\ runner = "ddl" /\ pc = "start"
    /\ IF ~cfg.dir_exists
       THEN /\ err' = "FileNotFoundError"
            /\ pc' = "raised"
            /\ UNCHANGED <<fi, conn_autocommit>>
       ELSE /\ conn_autocommit' = cfg.autocommit
            /\ fi' = 1
            /\ pc' = "file"
            /\ UNCHANGED err
    /\ UNCHANGED <<others, runner, cfg, files, stmts, si, db, log, ran>>

\* for fname in self.ddl_order: the existence check, then the head of
\* _run_file; after the last file, the finally clause
DdlNextFile ==
    /\ runner = "ddl" /\ pc = "file"
    /\ IF fi > Len(files)
       THEN /\ pc' = "done"
            /\ conn_autocommit' = FALSE
            /\ UNCHANGED <<fi, stmts, si, err, ran>>
       ELSE IF ~files[fi].exists
       THEN IF cfg.skip_missing
            THEN /\ fi' = AfterSkippedFile(fi, Len(files))
                 /\ UNCHANGED <<pc, stmts, si, err, ran, conn_autocommit>>
            ELSE /\ err' = "FileNotFoundError"
                 /\ pc' = "except"
                 /\ UNCHANGED <<fi, stmts, si, ran, conn_autocommit>>
       ELSE IF StatementsOf(files[fi]) = <<>>
       THEN /\ fi' = fi + 1
            /\ ran' = Append(ran, fi)
            /\ UNCHANGED <<pc, stmts, si, err, conn_autocommit>>
       ELSE /\ stmts' = StatementsOf(files[fi])
            /\ si' = 1
            /\ pc' = "stmt"
            /\ ran' = Append(ran, fi)
            /\ UNCHANGED <<fi, err, conn_autocommit>>
    /\ UNCHANGED <<others, runner, cfg, files, db, log>>

\* an empty statement or a psql meta command is passed over
DdlSkipStatement ==
    /\ runner = "ddl" /\ pc = "stmt"
    /\ StmtClean(stmts[si]) = <<>> \/ IsMetaCommand(StmtClean(stmts[si]))
    /\ AfterStatement
    /\ log' = Logged("skipped")
    /\ UNCHANGED <<others, runner, cfg, files, fi, stmts, db, conn_autocommit, err, ran>>

\* cur.execute("SAVEPOINT sp_idx")
DdlSavepoint ==
    /\ runner = "ddl" /\ pc = "stmt"
    /\ StmtClean(stmts[si]) # <<>> /\ ~IsMetaCommand(StmtClean(stmts[si]))
    /\ UsesSavepoint(cfg.fail_fast, conn_autocommit)
    /\ LET r == DbSavepoint(db, si)
       IN /\ db' = r.db
          /\ IF r.sqlstate = ""
             THEN pc' = "sp_execute" /\ UNCHANGED err
             ELSE pc' = "except" /\ err' = r.sqlstate
    /\ UNCHANGED <<others, runner, cfg, files, fi, stmts, si, conn_autocommit, log, ran>>

\* cur.execute(stmt_clean) inside the savepoint
DdlExecuteInSavepoint ==
    /\ runner = "ddl" /\ pc = "sp_execute"
    /\ LET r == DbExecute(db, <<fi, si>>, Raises(StmtClean(stmts[si])), FALSE)
       IN /\ db' = r.db
          /\ IF r.sqlstate = ""
             THEN pc' = "sp_release" /\ log' = Logged("ok")
             ELSE pc' = "sp_rollback" /\ log' = Logged(r.sqlstate)
    /\ UNCHANGED <<others, runner, cfg, files, fi, stmts, si, conn_autocommit, err, ran>>

\* cur.execute("RELEASE SAVEPOINT sp_idx") after the statement succeeded
DdlRelease ==
    /\ runner = "ddl" /\ pc = "sp_release"
    /\ LET r == DbRelease(db, si)
       IN /\ db' = r.db
          /\ IF r.sqlstate = ""
             THEN AfterStatement /\ UNCHANGED err
             ELSE pc' = "sp_rollback" /\ UNCHANGED <<si, err>>
    /\ UNCHANGED <<others, runner, cfg, files, fi, stmts, conn_autocommit, log, ran>>

\* except: cur.execute("ROLLBACK TO SAVEPOINT sp_idx")
DdlRollbackTo ==
    /\ runner = "ddl" /\ pc = "sp_rollback"
    /\ LET r == DbRollbackTo(db, si)
       IN /\ db' = r.db
          /\ IF r.sqlstate = ""
             THEN pc' = "sp_release_failed" /\ UNCHANGED err
             ELSE pc' = "except" /\ err' = r.sqlstate
    /\ UNCHANGED <<others, runner, cfg, files, fi, stmts, si, conn_autocommit, log, ran>>

\* except: cur.execute("RELEASE SAVEPOINT sp_idx"), logger.exception, continue
DdlReleaseFailed ==
    /\ runner = "ddl" /\ pc = "sp_release_failed"
    /\ LET r == DbRelease(db, si)
       IN /\ db' = r.db
          /\ IF r.sqlstate = ""
             THEN AfterStatement /\ UNCHANGED err
             ELSE pc' = "except" /\ err' = r.sqlstate /\ UNCHANGED si
    /\ UNCHANGED <<others, runner, cfg, files, fi, stmts, conn_autocommit, log, ran>>

\* else: cur.execute(stmt_clean); an error is logged and raised again
DdlExecute ==
    /\ runner = "ddl" /\ pc = "stmt"
    /\ StmtClean(stmts[si]) # <<>> /\ ~IsMetaCommand(StmtClean(stmts[si]))
    /\ ~UsesSavepoint(cfg.fail_fast, conn_autocommit)
    /\ LET r == DbExecute(db, <<fi, si>>, Raises(StmtClean(stmts[si])), conn_autocommit)
       IN /\ db' = r.db
          /\ IF r.sqlstate = ""
             THEN AfterStatement /\ log' = Logged("ok") /\ UNCHANGED err
             ELSE /\ pc' = "except"
                  /\ err' = r.sqlstate
                  /\ log' = Logged(r.sqlstate)
                  /\ UNCHANGED si
    /\ UNCHANGED <<others, runner, cfg, files, fi, stmts, conn_autocommit, ran>>

\* the file's transaction is committed: hasattr(conn, "commit") and not is_autocommit
CommitsFile(is_autocommit) == ~is_autocommit

\* the end of _run_file: conn.commit() unless in autocommit
DdlCommit ==
    /\ runner = "ddl" /\ pc = "commit"
    /\ db' = IF CommitsFile(conn_autocommit) THEN DbCommit(db) ELSE db
    /\ fi' = fi + 1
    /\ pc' = "file"
    /\ UNCHANGED <<others, runner, cfg, files, stmts, si, conn_autocommit, err, log, ran>>

\* run(): except Exception: conn.rollback(); raise; finally: autocommit restored
DdlExcept ==
    /\ runner = "ddl" /\ pc = "except"
    /\ db' = DbRollback(db)
    /\ conn_autocommit' = FALSE
    /\ pc' = "raised"
    /\ UNCHANGED <<others, runner, cfg, files, fi, stmts, si, err, log, ran>>

-----------------------------------------------------------------------------
(* run_sql_files: each file inside "with engine.begin() as conn" *)

\* sqlstate in ignore_sqlstates
Ignored(sqlstate, ignore_sqlstates) == sqlstate \in ignore_sqlstates

\* the directory check
SqlStart ==
    /\ runner = "sql" /\ pc = "start"
    /\ IF ~cfg.dir_exists
       THEN err' = "FileNotFoundError" /\ pc' = "raised" /\ UNCHANGED fi
       ELSE fi' = 1 /\ pc' = "file" /\ UNCHANGED err
    /\ UNCHANGED <<others, runner, cfg, files, stmts, si, db, conn_autocommit, log, ran>>

\* for fname in ddl_files: a missing file raises, an empty one is passed
\* over, any other opens the file's transaction
SqlNextFile ==
    /\ runner = "sql" /\ pc = "file"
    /\ IF fi > Len(files)
       THEN pc' = "done" /\ UNCHANGED <<fi, stmts, si, err, ran>>
       ELSE IF ~files[fi].exists
       THEN /\ err' = "FileNotFoundError"
            /\ pc' = "raised"
            /\ UNCHANGED <<fi, stmts, si, ran>>
       ELSE IF StatementsOf(files[fi]) = <<>>
       THEN fi' = fi + 1 /\ UNCHANGED <<pc, stmts, si, err, ran>>
       ELSE /\ stmts' = StatementsOf(files[fi])
            /\ si' = 1
            /\ pc' = "stmt"
            /\ ran' = Append(ran, fi)
            /\ UNCHANGED <<fi, err>>
    /\ UNCHANGED <<others, runner, cfg, files, db, conn_autocommit, log>>

\* an empty statement or a psql meta command is passed over
SqlSkipStatement ==
    /\ runner = "sql" /\ pc = "stmt"
    /\ StmtClean(stmts[si]) = <<>> \/ IsMetaCommand(StmtClean(stmts[si]))
    /\ AfterStatement
    /\ log' = Logged("skipped")
    /\ UNCHANGED <<others, runner, cfg, files, fi, stmts, db, conn_autocommit, err, ran>>

\* conn.exec_driver_sql(stmt_to_exec) and its except clauses
SqlExecute ==
    /\ runner = "sql" /\ pc = "stmt"
    /\ StmtClean(stmts[si]) # <<>> /\ ~IsMetaCommand(StmtClean(stmts[si]))
    /\ LET r == DbExecute(db, <<fi, si>>, Raises(StmtClean(stmts[si])), FALSE)
       IN /\ db' = r.db
          /\ IF r.sqlstate = ""
             THEN AfterStatement /\ log' = Logged("ok") /\ UNCHANGED err
             ELSE IF Ignored(r.sqlstate, cfg.ignore_sqlstates)
             THEN AfterStatement /\ log' = Logged("ignored") /\ UNCHANGED err
             ELSE IF cfg.fail_fast
             THEN /\ pc' = "except"
                  /\ err' = r.sqlstate
                  /\ log' = Logged(r.sqlstate)
                  /\ UNCHANGED si
             ELSE AfterStatement /\ log' = Logged(r.sqlstate) /\ UNCHANGED err
    /\ UNCHANGED <<others, runner, cfg, files, fi, stmts, conn_autocommit, ran>>

\* the with block ends normally: the transaction is committed
SqlCommit ==
    /\ runner = "sql" /\ pc = "commit"
    /\ db' = DbCommit(db)
    /\ fi' = fi + 1
    /\ pc' = "file"
    /\ UNCHANGED <<others, runner, cfg, files, stmts, si, conn_autocommit, err, log, ran>>

\* the with block is left by the exception: the transaction is rolled back
SqlExcept ==
    /\ runner = "sql" /\ pc = "except"
    /\ db' = DbRollback(db)
    /\ pc' = "raised"
    /\ UNCHANGED <<others, runner, cfg, files, fi, stmts, si, conn_autocommit, err, log, ran>>

-----------------------------------------------------------------------------
(* Inputs of the runners *)

MaxFiles == 2       \* files in the list
MaxStmts == 3       \* statements in the listed files, all together

Snippets == {GoodStmt, BadStmt, DuplicateStmt, MetaStmt}

\* the files of exactly k statements; a missing file has none
FilesWith(k) ==
    {[exists |-> TRUE, text |-> Flatten(q)] : q \in [1..k -> Snippets]}
        \cup (IF k = 0 THEN {MissingFile} ELSE {})

RECURSIVE FileListsOf(_, _)
\* the lists of at most nf files holding at most ns statements
FileListsOf(nf, ns) ==
    IF nf = 0 THEN {<<>>}
    ELSE {<<>>} \cup
         UNION {{<<f>> \o r : f \in FilesWith(k), r \in FileListsOf(nf - 1, ns - k)}
                    : k \in 0..ns}

FileLists == FileListsOf(MaxFiles, MaxStmts)

\* DDLRunner(sql_dir, ddl_order, fail_fast, skip_missing).run(conn, autocommit)
DdlConfigs ==
    [fail_fast : BOOLEAN, skip_missing : BOOLEAN, autocommit : BOOLEAN,
     dir_exists : BOOLEAN, ignore_sqlstates : {{}}]

\* run_sql_files(engine, sql_dir, ddl_files, fail_fast, ignore_sqlstates)
SqlConfigs ==
    [fail_fast : BOOLEAN, skip_missing : {FALSE}, autocommit : {FALSE},
     dir_exists : BOOLEAN, ignore_sqlstates : {{}, {DuplicateObject}}]

\* no file exists in a directory that does not exist
Consistent(c, fs) ==
    c.dir_exists \/ \A k \in 1..Len(fs) : ~fs[k].exists

InitRunner ==
    /\ phase = "run"
    /\ SplitIdle
    /\ PlanIdle
    /\ LoadIdle
    /\ QuoteIdle
    /\ runner \in {"ddl", "sql"}
    /\ cfg \in (IF runner = "ddl" THEN DdlConfigs ELSE SqlConfigs)
    /\ files \in FileLists
    /\ Consistent(cfg, files)
    /\ pc = "start"
    /\ fi = 0
    /\ stmts = <<>>
    /\ si = 0
    /\ db = DbInit
    /\ conn_autocommit = FALSE
    /\ err = "none"
    /\ log = <<>>
    /\ ran = <<>>

NextRunner ==
    \/ DdlStart
    \/ DdlNextFile
    \/ DdlSkipStatement
    \/ DdlSavepoint
    \/ DdlExecuteInSavepoint
    \/ DdlRelease
    \/ DdlRollbackTo
    \/ DdlReleaseFailed
    \/ DdlExecute
    \/ DdlCommit
    \/ DdlExcept
    \/ SqlStart
    \/ SqlNextFile
    \/ SqlSkipStatement
    \/ SqlExecute
    \/ SqlCommit
    \/ SqlExcept

SpecRunner == InitRunner /\ [][NextRunner]_vars

-----------------------------------------------------------------------------
(* load(): names, dataset keys and the plan of build_savh_load_plan().      *)
(* A name or a key is a text in words: "audit.notes" is                     *)
(* <<"audit", ".", "notes">>, " egresos" is <<" ", "egresos">>.             *)

Word(w) == <<w>>

DOT == "."

\* df_key=None
NoKey == <<>>

INSERT == "insert"
SKIP   == "skip"

\* TableSpec(name, df_key=..., depends_on=...), mode INSERT by default
TableSpec(name, df_key, depends_on) ==
    [name |-> name, df_key |-> df_key, depends_on |-> depends_on, mode |-> INSERT]

\* TableSpec.key(): self.df_key or self.name
Key(spec) == IF spec.df_key # <<>> THEN spec.df_key ELSE spec.name

\* the specs list of build_savh_load_plan()
SavhSpecs ==
    <<
        TableSpec(Word("app_users"), NoKey, {}),
        TableSpec(Word("productos"), NoKey, {}),
        TableSpec(Word("codigos"), NoKey, {}),
        TableSpec(Word("dim_convenciones"), NoKey, {}),
        TableSpec(Word("dim_variedades"), NoKey, {Word("productos")}),
        TableSpec(Word("dim_categorias"), NoKey, {Word("productos")}),
        TableSpec(Word("dim_calibres"), NoKey, {Word("productos"), Word("dim_convenciones")}),
        TableSpec(Word("dim_medios_pago"), NoKey, {}),
        TableSpec(Word("dim_grupos_egresos"), NoKey, {}),
        TableSpec(Word("dim_tipos_egreso"), Word("dim_tipos_egresos"), {Word("dim_grupos_egresos")}),
        TableSpec(Word("dim_modelos_comerciales"), NoKey, {}),
        TableSpec(Word("dim_tipos_economicos"), NoKey, {}),
        TableSpec(Word("dim_estados_despacho"), NoKey, {}),
        TableSpec(Word("dim_estados_venta"), NoKey, {}),
        TableSpec(Word("dim_estados_venta_facturacion"), NoKey, {}),
        TableSpec(Word("dim_estados_venta_pago"), NoKey, {}),
        TableSpec(Word("dim_estados_compra"), NoKey, {}),
        TableSpec(Word("dim_tipos_clientes"), NoKey, {}),
        TableSpec(Word("dim_estados_pedido"), NoKey, {}),
        TableSpec(Word("dim_tipos_venta"), NoKey, {}),
        TableSpec(Word("dim_entity_type"), NoKey, {}),
        TableSpec(Word("dim_event_type"), NoKey, {}),
        TableSpec(Word("terceros"), NoKey, {}),
        TableSpec(Word("terceros_vendedor"), NoKey, {Word("terceros"), Word("dim_modelos_comerciales")}),
        TableSpec(Word("terceros_cliente"), NoKey, {Word("terceros"), Word("dim_tipos_clientes"), Word("terceros_vendedor")}),
        TableSpec(Word("terceros_proveedor"), NoKey, {Word("terceros")}),
        TableSpec(Word("destinatarios"), NoKey, {Word("terceros_cliente")}),
        TableSpec(Word("trabajadores"), NoKey, {}),
        TableSpec(Word("vehiculos"), NoKey, {}),
        TableSpec(Word("pedidos"), NoKey, {Word("terceros_cliente"), Word("destinatarios"), Word("dim_estados_pedido"), Word("app_users")}),
        TableSpec(Word("pedidos_items"), NoKey, {Word("pedidos"), Word("productos"), Word("dim_variedades"), Word("dim_categorias"), Word("dim_calibres"), Word("codigos"), Word("app_users")}),
        TableSpec(Word("entregas"), NoKey, {Word("pedidos"), Word("app_users")}),
        TableSpec(Word("ventas"), NoKey, {Word("pedidos"), Word("terceros_cliente"), Word("destinatarios"), Word("dim_tipos_venta"), Word("dim_estados_venta"), Word("dim_estados_despacho"), Word("dim_estados_venta_facturacion"), Word("dim_estados_venta_pago"), Word("app_users")}),
        TableSpec(Word("ventas_items"), NoKey, {Word("ventas"), Word("productos"), Word("dim_variedades"), Word("dim_categorias"), Word("dim_calibres"), Word("codigos"), Word("app_users")}),
        TableSpec(Word("pagos"), NoKey, {Word("terceros_cliente"), Word("dim_medios_pago"), Word("app_users")}),
        TableSpec(Word("aplicaciones_pago"), NoKey, {Word("pagos"), Word("ventas"), Word("app_users")}),
        TableSpec(Word("compras_producto"), NoKey, {Word("codigos"), Word("terceros_proveedor"), Word("dim_estados_compra"), Word("app_users")}),
        TableSpec(Word("compras_producto_items"), NoKey, {Word("compras_producto"), Word("productos"), Word("dim_variedades"), Word("dim_categorias"), Word("dim_calibres"), Word("app_users")}),
        TableSpec(Word("ingresos_producto"), NoKey, {Word("app_users")}),
        TableSpec(Word("ingresos_producto_items"), NoKey, {Word("ingresos_producto"), Word("codigos"), Word("productos"), Word("dim_variedades"), Word("dim_categorias"), Word("dim_calibres"), Word("app_users")}),
        TableSpec(Word("mermas"), NoKey, {Word("codigos"), Word("productos"), Word("dim_variedades"), Word("dim_categorias"), Word("dim_calibres"), Word("app_users")}),
        TableSpec(Word("egresos"), NoKey, {Word("dim_tipos_egreso"), Word("dim_tipos_economicos"), Word("dim_medios_pago"), Word("vehiculos"), Word("trabajadores"), Word("terceros_vendedor"), Word("terceros_cliente"), Word("terceros_proveedor"), Word("app_users")}),
        TableSpec(Word("pagos_compra"), NoKey, {Word("compras_producto"), Word("egresos"), Word("app_users")}),
        TableSpec(Word("ingest_events"), NoKey, {}),
        TableSpec(Word("entity_events"), NoKey, {Word("ingest_events"), Word("dim_entity_type"), Word("dim_event_type"), Word("app_users")}),
        TableSpec(Word("audit_log"), NoKey, {Word("ingest_events"), Word("app_users")})
    >>

\* the specs with the mode of the tables of skip set to SKIP
WithModes(ss, skip) ==
    [k \in 1..Len(ss) |->
        IF ss[k].name \in skip THEN [ss[k] EXCEPT !.mode = SKIP] ELSE ss[k]]

\* build_savh_load_plan() as written: LoadPlan(tuple(specs))
SavhLoadPlan == LoadPlanOrder(SavhSpecs)

\* a table of the plan that may be set to SKIP
SkipCandidate == Word("egresos")

SavhLoadPlanWithSkip == LoadPlanOrder(WithModes(SavhSpecs, {SkipCandidate}))

\* build_savh_load_plan()
BuildSavhLoadPlan(skip) ==
    IF skip = {} THEN SavhLoadPlan ELSE SavhLoadPlanWithSkip

\* _schema_for_table(table, core_schema, ingest_schema, audit_schema), with
\* the default schema names of load()
CoreSchema   == "core"
IngestSchema == "ingest"
AuditSchema  == "audit"

Schemas == <<CoreSchema, IngestSchema, AuditSchema>>

SchemaForTable(table) ==
    IF table \in {Word("ingest_events"), Word("entity_events")} THEN IngestSchema
    ELSE IF table = Word("audit_log") THEN AuditSchema
    ELSE CoreSchema

\* "." in table
HasDot(t) == \E k \in 1..Len(t) : t[k] = DOT

\* table.split(".", 1): the texts before and after the first "."
FirstDot(t) == CHOOSE k \in 1..Len(t) : t[k] = DOT /\ \A m \in 1..(k - 1) : t[m] # DOT

SplitAtDot(t) ==
    [sch |-> SubSeq(t, 1, FirstDot(t) - 1), tbl |-> SubSeq(t, FirstDot(t) + 1, Len(t))]

-----------------------------------------------------------------------------
(* load(): datasets, column metadata and _validate_and_align_df.            *)
(* A dataset is [key, columns, rows]: its key in dict_df, the labels of its *)
(* columns (texts) and the number of its rows.  A column of an aligned      *)
(* dataset is [name, src]: its label and the index of the dataset's column  *)
(* whose data it carries.                                                   *)

\* ColumnMeta(name, is_nullable, has_default, is_identity)
ColumnMeta(name, is_nullable, has_default, is_identity) ==
    [name |-> name, is_nullable |-> is_nullable, has_default |-> has_default,
     is_identity |-> is_identity]

\* get_table_columns_meta(engine, schema, table): the columns of the table in
\* ordinal position, none when the table does not exist
GetTableColumnsMeta(d, schema, table) ==
    IF <<schema, table>> \in d.tables THEN d.columns ELSE <<>>

\* df.columns = [str(c).strip() for c in df.columns]
RECURSIVE StripLabels(_)
StripLabels(cols) ==
    IF cols = <<>> THEN <<>>
    ELSE <<Strip(Head(cols))>> \o StripLabels(Tail(cols))

SeqToSet(q) == {q[k] : k \in 1..Len(q)}

\* [c.name for c in meta]
RECURSIVE ColumnNames(_)
ColumnNames(meta) ==
    IF meta = <<>> THEN <<>>
    ELSE <<Head(meta).name>> \o ColumnNames(Tail(meta))

\* a column the dataset must have: any column
IsRequired_Never(c) == FALSE

\* a column the dataset must have:
\* (not c.is_nullable) and (not c.has_default) and (not c.is_identity)
IsRequired(c) == ~c.is_nullable /\ ~c.has_default /\ ~c.is_identity

\* required
Required(meta) == {meta[k].name : k \in {j \in 1..Len(meta) : IsRequired(meta[j])}}

\* the dataset with its labels stripped, column by column
Labelled(cols) == [k \in 1..Len(cols) |-> [name |-> StripLabels(cols)[k], src |-> k]]

\* df[names]: for each name, in order, the columns of df with that label
RECURSIVE Select(_, _)
Select(df, names) ==
    IF names = <<>> THEN <<>>
    ELSE SelectSeq(df, LAMBDA c : c.name = Head(names)) \o Select(df, Tail(names))

\* [x for x in xs if x in keep]
Keep(xs, keep) == SelectSeq(xs, LAMBDA x : x \in keep)

\* df = df[[c for c in df_cols if c in set(db_cols)]]
DropsExtra(df, df_cols, db_cols) == Select(df, Keep(df_cols, SeqToSet(db_cols)))

\* extra columns raise: never
RejectsExtra_Never(extra, drop_extra_columns) == FALSE

\* if extra: if not drop_extra_columns: raise ValueError
RejectsExtra(extra, drop_extra_columns) == extra # {} /\ ~drop_extra_columns

\* _validate_and_align_df(engine, df, schema, table, drop_extra_columns): the
\* aligned columns, or the ValueError raised
ValidateAndAlign(meta, cols, drop_extra_columns) ==
    LET df      == Labelled(cols)
        db_cols == ColumnNames(meta)
        df_cols == StripLabels(cols)
        missing_required == Required(meta) \ SeqToSet(df_cols)
        extra   == SeqToSet(df_cols) \ SeqToSet(db_cols)
        kept    == IF extra # {} THEN DropsExtra(df, df_cols, db_cols) ELSE df
        ordered == Keep(db_cols, {kept[k].name : k \in 1..Len(kept)})
    IN IF meta = <<>> THEN [error |-> "no_table", columns |-> <<>>]
       ELSE IF missing_required # {}
       THEN [error |-> "missing_required", columns |-> <<>>]
       ELSE IF RejectsExtra(extra, drop_extra_columns)
       THEN [error |-> "extra", columns |-> <<>>]
       ELSE [error |-> "none", columns |-> Select(kept, ordered)]

\* df.empty: no row or no column
IsEmpty(d) == d.rows = 0 \/ d.columns = <<>>

\* df_key in dict_df
HasKey(dd, key) == \E k \in 1..Len(dd) : dd[k].key = key

\* dict_df[df_key]
Dataset(dd, key) == dd[CHOOSE k \in 1..Len(dd) : dd[k].key = key]

\* every table is taken to exist
TableExists_Always(d, schema, table) == TRUE

\* pg.table_exists(schema, table_name)
TableExists(d, schema, table) == <<schema, table>> \in d.tables

-----------------------------------------------------------------------------
(* load(): the phases.  One action per phase step; ops records what each    *)
(* step does to the database.                                               *)

DEFAULT_PRE_DDL_FILES == <<"01_schema.sql", "02_tables.sql", "03_constraints.sql">>

DEFAULT_POST_DDL_FILES ==
    <<"04_foreign_keys.sql", "05_indexes.sql", "06_comments.sql", "07_triggers.sql">>

Op(ph, op, target) == [phase |-> ph, op |-> op, target |-> target]

\* the operations of run_sql_files(engine, sql_dir, names) when the file
\* numbered failing raises (0: none does): the files up to it, in list order
ScriptOps(ph, names, failing) ==
    [k \in 1..(IF failing = 0 THEN Len(names) ELSE failing) |-> Op(ph, "script", names[k])]

\* pg.drop_schema(s) / pg.create_schema(s) for s in schemas
SchemaOps(op) == [k \in 1..Len(Schemas) |-> Op("reset", op, Schemas[k])]

\* the tables of the three schemas: what _truncate_all_tables finds
TablesOfSchemas(d) == {t \in d.tables : t[1] \in SeqToSet(Schemas)}

\* the database without the three schemas
DropSchemas(d) ==
    [d EXCEPT !.tables = @ \ TablesOfSchemas(d),
              !.rows = [t \in d.tables \ TablesOfSchemas(d) |-> d.rows[t]]]

\* TRUNCATE TABLE ... RESTART IDENTITY CASCADE on the tables found
Truncate(d) ==
    [d EXCEPT !.rows = [t \in d.tables |-> IF t \in TablesOfSchemas(d) THEN 0 ELSE d.rows[t]]]

\* the tables the pre-DDL scripts create: those of the plan
ScriptTables == {<<SchemaForTable(SavhSpecs[k].name), SavhSpecs[k].name>> : k \in 1..Len(SavhSpecs)}

CreateTables(d) ==
    [d EXCEPT !.tables = @ \cup ScriptTables,
              !.rows = [t \in d.tables \cup ScriptTables |->
                            IF t \in d.tables THEN d.rows[t] ELSE 0]]

\* to_sql(if_exists="append"): n rows more in the table
InsertRows(d, t, n) == [d EXCEPT !.rows[t] = @ + n]

\* ddl_needed after a truncate: never
DdlNeededAfterTruncate_Never(truncated) == FALSE

\* ddl_needed after a truncate that found truncated tables
DdlNeededAfterTruncate(truncated) == truncated = 0

Raise(e) ==
    /\ lpc' = "raised"
    /\ outcome' = e

\* 1) Reset
LoadReset ==
    /\ lpc = "reset"
    /\ IF args.load_mode = "drop_create"
       THEN /\ pg' = DropSchemas(pg)
            /\ ops' = ops \o SchemaOps("drop_schema")
            /\ ddl_needed' = TRUE
            /\ lpc' = "pre_ddl"
            /\ UNCHANGED outcome
       ELSE IF args.load_mode = "truncate"
       THEN /\ pg' = Truncate(pg)
            /\ ops' = ops \o SchemaOps("create_schema")
                          \o (IF TablesOfSchemas(pg) = {} THEN <<>>
                              ELSE <<Op("reset", "truncate", TablesOfSchemas(pg))>>)
            /\ ddl_needed' = DdlNeededAfterTruncate(Cardinality(TablesOfSchemas(pg)))
            /\ lpc' = "pre_ddl"
            /\ UNCHANGED outcome
       ELSE /\ Raise("ValueError")
            /\ UNCHANGED <<pg, ops, ddl_needed>>
    /\ UNCHANGED <<args, skip_specs, dict_df, load_plan, li, loaded_tables,
                   loaded_keys, rows_by_table>>
    /\ UNCHANGED <<phase, splitVars, planVars, runVars, quoteVars>>

\* 2) DDL pre: run_sql_files(engine, sql_dir_path, DEFAULT_PRE_DDL_FILES)
LoadPreDdl ==
    /\ lpc = "pre_ddl"
    /\ IF ddl_needed
       THEN \E failing \in 0..Len(DEFAULT_PRE_DDL_FILES) :
                /\ ops' = ops \o ScriptOps("pre_ddl", DEFAULT_PRE_DDL_FILES, failing)
                /\ IF failing = 0
                   THEN pg' = CreateTables(pg) /\ lpc' = "ddl_only" /\ UNCHANGED outcome
                   ELSE Raise("DDLError") /\ UNCHANGED pg
       ELSE lpc' = "ddl_only" /\ UNCHANGED <<pg, ops, outcome>>
    /\ UNCHANGED <<args, skip_specs, dict_df, ddl_needed, load_plan, li,
                   loaded_tables, loaded_keys, rows_by_table>>
    /\ UNCHANGED <<phase, splitVars, planVars, runVars, quoteVars>>

\* sum(rows_by_table.values()), over the keys ks
RECURSIVE SumValues(_, _)
SumValues(by_table, ks) ==
    IF ks = {} THEN 0
    ELSE LET k == CHOOSE x \in ks : TRUE
         IN by_table[k] + SumValues(by_table, ks \ {k})

\* LoadResult(tables_loaded=len(rows_by_table), rows_loaded=..., rows_by_table=...)
LoadResult(by_table) ==
    [tables_loaded |-> Cardinality(DOMAIN by_table),
     rows_loaded   |-> SumValues(by_table, DOMAIN by_table),
     rows_by_table |-> by_table]

\* load() goes on after the pre-DDL, whatever ddl_only
ShortCircuits_Never(ddl_only) == FALSE

\* if ddl_only: return
ShortCircuits(ddl_only) == ddl_only

\* the DDL-only return, or else plan = build_savh_load_plan()
LoadDdlOnly ==
    /\ lpc = "ddl_only"
    /\ IF ShortCircuits(args.ddl_only)
       THEN /\ lpc' = "done"
            /\ outcome' = LoadResult(<<>>)
            /\ UNCHANGED <<load_plan, li>>
       ELSE /\ load_plan' = BuildSavhLoadPlan(skip_specs)
            /\ li' = 0
            /\ lpc' = "plan_pass"
            /\ UNCHANGED outcome
    /\ UNCHANGED <<args, skip_specs, dict_df, pg, ddl_needed, loaded_tables,
                   loaded_keys, rows_by_table, ops>>
    /\ UNCHANGED <<phase, splitVars, planVars, runVars, quoteVars>>

\* _load_one(table, df_key) up to the insert: what it decides
LoadOne(d, dd, drop_extra_columns, table, df_key) ==
    LET schema == SchemaForTable(table)
        nothing == [status |-> "absent", schema |-> schema, columns |-> <<>>, rows |-> 0]
    IN IF ~HasKey(dd, df_key) THEN nothing
       ELSE IF IsEmpty(Dataset(dd, df_key)) THEN [nothing EXCEPT !.status = "empty"]
       ELSE IF ~TableExists(d, schema, table) THEN [nothing EXCEPT !.status = "no_table"]
       ELSE LET v == ValidateAndAlign(GetTableColumnsMeta(d, schema, table),
                                      Dataset(dd, df_key).columns, drop_extra_columns)
            IN IF v.error # "none" THEN [nothing EXCEPT !.status = "invalid"]
               ELSE [status |-> "write", schema |-> schema, columns |-> v.columns,
                     rows |-> Dataset(dd, df_key).rows]

\* rows_by_table[f"{schema}.{table}"] = int(len(df2))
SetItem(by_table, k, v) ==
    [x \in DOMAIN by_table \cup {k} |-> IF x = k THEN v ELSE by_table[x]]

InsertOp(ph, schema, table, df_key, r) ==
    [phase |-> ph, op |-> "insert", target |-> <<schema, table>>, key |-> df_key,
     columns |-> r.columns, rows |-> r.rows]

\* _load_one(table, df_key) as called from the pass ph; fails: the insert
\* raises, and its transaction is rolled back
LoadOneStep(ph, table, df_key, fails) ==
    LET r == LoadOne(pg, dict_df, args.drop_extra_columns, table, df_key)
    IN /\ fails => r.status = "write"
       /\ IF r.status = "invalid"
          THEN /\ Raise("ValueError")
               /\ UNCHANGED <<pg, loaded_tables, loaded_keys, rows_by_table, ops>>
          ELSE IF r.status = "write" /\ fails
          THEN /\ Raise("InsertError")
               /\ ops' = Append(ops, Op(ph, "insert_rolled_back", <<r.schema, table>>))
               /\ UNCHANGED <<pg, loaded_tables, loaded_keys, rows_by_table>>
          ELSE IF r.status = "write"
          THEN /\ pg' = InsertRows(pg, <<r.schema, table>>, r.rows)
               /\ ops' = Append(ops, InsertOp(ph, r.schema, table, df_key, r))
               /\ loaded_tables' = Append(loaded_tables, <<r.schema, table>>)
               /\ loaded_keys' = loaded_keys \cup {df_key}
               /\ rows_by_table' = SetItem(rows_by_table, <<r.schema, table>>, r.rows)
               /\ UNCHANGED <<lpc, outcome>>
          ELSE UNCHANGED <<pg, loaded_tables, loaded_keys, rows_by_table, ops,
                           lpc, outcome>>

\* the next spec of plan.order after position k whose key is in dict_df, 0
\* when there is none: for the specs in between _load_one returns at once
NextPlanned(order, k, dd) ==
    IF \E j \in (k + 1)..Len(order) : HasKey(dd, Key(order[j]))
    THEN CHOOSE j \in (k + 1)..Len(order) :
            /\ HasKey(dd, Key(order[j]))
            /\ \A m \in (k + 1)..(j - 1) : ~HasKey(dd, Key(order[m]))
    ELSE 0

\* 3) for spec in plan.order: _load_one(table=spec.name, df_key=spec.key())
LoadPlanPass ==
    /\ lpc = "plan_pass"
    /\ LET j == NextPlanned(load_plan.order, li, dict_df)
       IN IF j = 0
          THEN /\ lpc' = "fallback"
               /\ li' = 1
               /\ UNCHANGED <<pg, loaded_tables, loaded_keys, rows_by_table, ops, outcome>>
          ELSE /\ li' = j
               /\ \E fails \in BOOLEAN :
                    LoadOneStep("plan_pass", load_plan.order[j].name,
                                Key(load_plan.order[j]), fails)
    /\ UNCHANGED <<args, skip_specs, dict_df, ddl_needed, load_plan>>
    /\ UNCHANGED <<phase, splitVars, planVars, runVars, quoteVars>>

\* the table the fallback pass hands to _load_one for a key, <<>> when none
FallbackTable(d, df_key) ==
    LET table == Strip(df_key)
    IN IF table = <<>> THEN <<>>
       ELSE IF HasDot(table)
       THEN LET st == SplitAtDot(table)
            IN IF st.sch # <<>> /\ st.tbl # <<>> /\ Len(st.sch) = 1
                  /\ TableExists(d, st.sch[1], st.tbl)
               THEN st.tbl
               ELSE <<>>
       ELSE IF TableExists(d, CoreSchema, table) THEN table
       ELSE <<>>

\* the after-pass position
AfterFallback == "sync"

\* fallback: for df_key in dict_df.keys()
LoadFallback ==
    /\ lpc = "fallback"
    /\ IF li > Len(dict_df)
       THEN /\ lpc' = AfterFallback
            /\ li' = 1
            /\ UNCHANGED <<pg, loaded_tables, loaded_keys, rows_by_table, ops, outcome>>
       ELSE /\ li' = li + 1
            /\ IF dict_df[li].key \in loaded_keys \/ FallbackTable(pg, dict_df[li].key) = <<>>
               THEN UNCHANGED <<pg, loaded_tables, loaded_keys, rows_by_table, ops,
                                lpc, outcome>>
               ELSE \E fails \in BOOLEAN :
                        LoadOneStep("fallback", FallbackTable(pg, dict_df[li].key),
                                    dict_df[li].key, fails)
    /\ UNCHANGED <<args, skip_specs, dict_df, ddl_needed, load_plan>>
    /\ UNCHANGED <<phase, splitVars, planVars, runVars, quoteVars>>

\* the position after the sequence syncs, were load() to insert again
AfterSync_Insert == "plan_pass"

\* the position after the sequence syncs
AfterSync == "post_ddl"

\* what sync_identity_sequences(engine, schema, table, id_column="id") meets:
\* the table has no column id; the column owns no sequence; setval succeeds;
\* setval raises SQLSTATE 42501; a statement raises any other error
SyncCases ==
    {"no_id_column", "no_sequence", "set", "insufficient_privilege", "other_error"}

\* sync_identity_sequences: the exception that leaves it, "none" when it
\* returns
SyncIdentitySequences(case) == IF case = "other_error" THEN "DBAPIError" ELSE "none"

\* load() lets the exception of a sync pass
SyncCaught_Never(e) == FALSE

\* try: sync_identity_sequences(...) except Exception: log.warning; continue
SyncCaught(e) == TRUE

\* 4) for schema, table in loaded_tables: sync_identity_sequences, its
\* exception caught
LoadSync ==
    /\ lpc = "sync"
    /\ IF li > Len(loaded_tables)
       THEN lpc' = AfterSync /\ li' = 0 /\ UNCHANGED <<ops, outcome>>
       ELSE \E case \in SyncCases :
              LET e == SyncIdentitySequences(case)
              IN /\ ops' = Append(ops, [phase |-> "sync", op |-> "sync",
                                        target |-> loaded_tables[li],
                                        synced |-> IF e = "none" THEN "returned"
                                                   ELSE "raised"])
                 /\ IF e # "none" /\ ~SyncCaught(e)
                    THEN Raise(e) /\ UNCHANGED li
                    ELSE li' = li + 1 /\ UNCHANGED <<lpc, outcome>>
    /\ UNCHANGED <<args, skip_specs, dict_df, pg, ddl_needed, load_plan,
                   loaded_tables, loaded_keys, rows_by_table>>
    /\ UNCHANGED <<phase, splitVars, planVars, runVars, quoteVars>>

\* 5) Post DDL: run_sql_files(engine, sql_dir_path, DEFAULT_POST_DDL_FILES)
LoadPostDdl ==
    /\ lpc = "post_ddl"
    /\ IF ddl_needed
       THEN \E failing \in 0..Len(DEFAULT_POST_DDL_FILES) :
                /\ ops' = ops \o ScriptOps("post_ddl", DEFAULT_POST_DDL_FILES, failing)
                /\ IF failing = 0
                   THEN lpc' = "analyze" /\ UNCHANGED outcome
                   ELSE Raise("DDLError")
       ELSE lpc' = "analyze" /\ UNCHANGED <<ops, outcome>>
    /\ UNCHANGED <<args, skip_specs, dict_df, pg, ddl_needed, load_plan, li,
                   loaded_tables, loaded_keys, rows_by_table>>
    /\ UNCHANGED <<phase, splitVars, planVars, runVars, quoteVars>>

\* if analyze: ANALYZE; then the LoadResult is returned
LoadAnalyze ==
    /\ lpc = "analyze"
    /\ ops' = IF args.analyze THEN Append(ops, Op("analyze", "analyze", <<>>)) ELSE ops
    /\ outcome' = LoadResult(rows_by_table)
    /\ lpc' = "done"
    /\ UNCHANGED <<args, skip_specs, dict_df, pg, ddl_needed, load_plan, li,
                   loaded_tables, loaded_keys, rows_by_table>>
    /\ UNCHANGED <<phase, splitVars, planVars, runVars, quoteVars>>

-----------------------------------------------------------------------------
(* Inputs of load() *)

MaxKeys == 2        \* datasets in dict_df

\* the columns every table of the database has
LoadColumns ==
    <<ColumnMeta(Word("id"), FALSE, FALSE, TRUE),
      ColumnMeta(Word("a"), FALSE, FALSE, FALSE),
      ColumnMeta(Word("b"), TRUE, FALSE, FALSE)>>

DfKeys ==
    {Word("dim_tipos_egresos"), Word("dim_tipos_egreso"), Word("egresos"),
     <<"audit", DOT, "notes">>}

\* a dataset to insert, an empty one, one without the required column a, one
\* with the extra column x
DataShapes ==
    {[columns |-> <<Word("b"), Word("a")>>, rows |-> 2],
     [columns |-> <<Word("a"), Word("b")>>, rows |-> 0],
     [columns |-> <<Word("b")>>, rows |-> 1],
     [columns |-> <<Word("a"), Word("x")>>, rows |-> 1]}

Datasets ==
    {[key |-> k, columns |-> sh.columns, rows |-> sh.rows] : k \in DfKeys, sh \in DataShapes}

\* the dataset maps of at most n keys
RECURSIVE DictDfsOf(_)
DictDfsOf(n) ==
    IF n = 0 THEN {<<>>}
    ELSE DictDfsOf(n - 1) \cup
         {Append(dd, d) : dd \in {x \in DictDfsOf(n - 1) : Len(x) = n - 1},
                          d \in Datasets}

DistinctKeys(dd) == \A a, b \in 1..Len(dd) : dd[a].key = dd[b].key => a = b

DictDfs == {dd \in DictDfsOf(MaxKeys) : DistinctKeys(dd)}

Database(tables, n) == [tables |-> tables, rows |-> [t \in tables |-> n], columns |-> LoadColumns]

\* a database never initialised, and one holding tables with a row each
EmptyDb == Database({}, 0)

PopulatedDb ==
    Database({<<CoreSchema, Word("dim_tipos_egreso")>>, <<CoreSchema, Word("notes")>>,
              <<AuditSchema, Word("notes")>>}, 1)

LoadArgs ==
    [load_mode : {"drop_create", "truncate", "other"}, ddl_only : BOOLEAN,
     drop_extra_columns : BOOLEAN, analyze : BOOLEAN]

InitLoad ==
    /\ phase = "load"
    /\ SplitIdle
    /\ PlanIdle
    /\ RunIdle
    /\ QuoteIdle
    /\ args \in LoadArgs
    /\ skip_specs \in {{}, {SkipCandidate}}
    /\ dict_df \in DictDfs
    /\ pg \in {EmptyDb, PopulatedDb}
    /\ lpc = "reset"
    /\ ddl_needed = (args.load_mode = "drop_create")
    /\ load_plan = NoPlan
    /\ li = 0
    /\ loaded_tables = <<>>
    /\ loaded_keys = {}
    /\ rows_by_table = <<>>
    /\ outcome = "none"
    /\ ops = <<>>

NextLoad ==
    \/ LoadReset
    \/ LoadPreDdl
    \/ LoadDdlOnly
    \/ LoadPlanPass
    \/ LoadFallback
    \/ LoadSync
    \/ LoadPostDdl
    \/ LoadAnalyze

SpecLoad == InitLoad /\ [][NextLoad]_vars

(* Inputs of _load_one taken alone: one dataset and its destination table *)

MaxCols == 3        \* columns of the dataset

\* labels of dataset columns: destination columns, one of them also padded
\* with a blank, and the column x no destination has
Labels == {Word("a"), Word("b"), <<SP, "b">>, Word("c"), Word("x")}

\* the column labels of a DataFrame: distinct once stripped
ColumnLists ==
    {cs \in UNION {[1..n -> Labels] : n \in 1..MaxCols} :
        \A i, j \in 1..Len(cs) : Strip(cs[i]) = Strip(cs[j]) => i = j}

\* the columns of destination tables, in ordinal position
Metas ==
    {LoadColumns,
     <<ColumnMeta(Word("c"), FALSE, TRUE, FALSE),
       ColumnMeta(Word("b"), TRUE, FALSE, FALSE),
       ColumnMeta(Word("a"), FALSE, FALSE, FALSE)>>}

AlignTable == Word("egresos")

InitAlign ==
    /\ phase = "align"
    /\ SplitIdle
    /\ PlanIdle
    /\ RunIdle
    /\ QuoteIdle
    /\ args \in {a \in LoadArgs : a.load_mode = "truncate" /\ ~a.ddl_only /\ ~a.analyze}
    /\ skip_specs = {}
    /\ \E cs \in ColumnLists, n \in 1..2 :
          dict_df = <<[key |-> AlignTable, columns |-> cs, rows |-> n]>>
    /\ \E meta \in Metas :
          pg = [tables |-> {<<CoreSchema, AlignTable>>},
                rows |-> [t \in {<<CoreSchema, AlignTable>>} |-> 0],
                columns |-> meta]
    /\ lpc = "plan_pass"
    /\ ddl_needed = FALSE
    /\ load_plan = NoPlan
    /\ li = 0
    /\ loaded_tables = <<>>
    /\ loaded_keys = {}
    /\ rows_by_table = <<>>
    /\ outcome = "none"
    /\ ops = <<>>

\* _load_one(table=..., df_key=...) called once
AlignOne ==
    /\ phase = "align"
    /\ lpc = "plan_pass"
    /\ li = 0
    /\ li' = 1
    /\ LoadOneStep("plan_pass", AlignTable, dict_df[1].key, FALSE)
    /\ UNCHANGED <<args, skip_specs, dict_df, ddl_needed, load_plan>>
    /\ UNCHANGED <<phase, splitVars, planVars, runVars, quoteVars>>

NextAlign == AlignOne

SpecAlign == InitAlign /\ [][NextAlign]_vars

-----------------------------------------------------------------------------
(* SQL built from schema and table names.  A name is a sequence of          *)
(* characters; a statement is the sequence of its fixed parts, each one     *)
(* element, and of the characters put in for the names.                     *)

\* name.replace('"', '""')
DoubleQuotes(name) ==
    Flatten([k \in 1..Len(name) |-> IF name[k] = DQ THEN <<DQ, DQ>> ELSE <<name[k]>>])

\* _quote_ident(name): '"' + str(name).replace('"', '""') + '"'
QuoteIdent(name) == <<DQ>> \o DoubleQuotes(name) \o <<DQ>>

\* PostgresClient.drop_schema: f'DROP SCHEMA IF EXISTS "{schema}" CASCADE;'
DropSchemaSql(schema) ==
    <<"DROP SCHEMA IF EXISTS ", DQ>> \o schema \o <<DQ, " CASCADE;">>

\* PostgresClient.create_schema: f'CREATE SCHEMA IF NOT EXISTS "{schema}";'
CreateSchemaSql(schema) ==
    <<"CREATE SCHEMA IF NOT EXISTS ", DQ>> \o schema \o <<DQ, ";">>

\* sep.join(ts)
Join(sep, ts) ==
    Flatten([k \in 1..Len(ts) |-> IF k = 1 THEN ts[k] ELSE sep \o ts[k]])

\* _truncate_all_tables: the statement for the tables found, (schema, table)
\* pairs
TruncateSql(tables) ==
    <<"TRUNCATE TABLE ">>
    \o Join(<<", ">>, [k \in 1..Len(tables) |->
                          QuoteIdent(tables[k][1]) \o <<".">> \o QuoteIdent(tables[k][2])])
    \o <<" RESTART IDENTITY CASCADE;">>

\* sync_identity_sequences: max_sql
MaxSql(schema, table, id_column) ==
    <<"SELECT MAX(">> \o QuoteIdent(id_column) \o <<") FROM ">>
    \o QuoteIdent(schema) \o <<".">> \o QuoteIdent(table) \o <<";">>

\* the tables _truncate_all_tables finds in a schema: the table named and a
\* table t
TablesFound(schema, table) == <<<<schema, table>>, <<schema, <<"t">>>>>>

Built(kind, text) ==
    /\ phase = "quote"
    /\ statement = NoStatement
    /\ statement' = [kind |-> kind, text |-> text]
    /\ UNCHANGED <<phase, idents, splitVars, planVars, runVars, loadVars>>

\* pg.drop_schema(schema)
DropSchema == Built("drop_schema", DropSchemaSql(idents.schema))

\* pg.create_schema(schema)
CreateSchema == Built("create_schema", CreateSchemaSql(idents.schema))

\* _truncate_all_tables(engine, schemas)
TruncateAllTables ==
    Built("truncate", TruncateSql(TablesFound(idents.schema, idents.table)))

\* sync_identity_sequences(engine, schema, table, id_column="id")
SyncMax == Built("sync", MaxSql(idents.schema, idents.table, <<"i", "d">>))

MaxName == 2        \* characters of a name

\* a lower-case letter, an upper-case letter and the double quote
NameChars == {"s", "T", DQ}

Names == UNION {[1..n -> NameChars] : n \in 1..MaxName}

InitQuote ==
    /\ phase = "quote"
    /\ SplitIdle
    /\ PlanIdle
    /\ RunIdle
    /\ LoadIdle
    /\ idents \in [schema : Names, table : Names]
    /\ statement = NoStatement

NextQuote ==
    \/ DropSchema
    \/ CreateSchema
    \/ TruncateAllTables
    \/ SyncMax

SpecQuote == InitQuote /\ [][NextQuote]_vars

-----------------------------------------------------------------------------
(* pg.write_dataframe under the loop of load(): the datasets of dict_df are *)
(* written one after the other, each by to_sql inside "with                 *)
(* self.engine().begin() as conn", in batches of chunksize rows.  The       *)
(* effect of a batch is <<fi, si>>: table and batch number.                 *)

\* the sizes of the batches to_sql inserts for rows rows
Batches(rows, chunksize) ==
    [k \in 1..((rows + chunksize - 1) \div chunksize) |->
        IF k * chunksize <= rows THEN chunksize ELSE rows - (k - 1) * chunksize]

\* the batches are run on a connection in autocommit
WriteAutocommit_On == TRUE

\* with self.engine().begin() as conn: one transaction, no autocommit
WriteAutocommit == FALSE

\* for spec in plan.order: _load_one ... pg.write_dataframe: the next dataset,
\* its batches, and the connection of engine.begin()
WriteNextTable ==
    /\ runner = "write" /\ pc = "table"
    /\ IF fi > Len(dict_df)
       THEN pc' = "done" /\ UNCHANGED <<stmts, si>>
       ELSE /\ stmts' = Batches(dict_df[fi].rows, cfg.chunksize)
            /\ si' = 1
            /\ pc' = "batch"
    /\ UNCHANGED <<others, runner, cfg, files, fi, db, conn_autocommit, err, log, ran>>

\* to_sql: the insert of one batch; it may raise SQLSTATE 23505
WriteBatch ==
    /\ runner = "write" /\ pc = "batch"
    /\ \E fails \in {"", "23505"} :
          LET r == DbExecute(db, <<fi, si>>, fails, WriteAutocommit)
          IN /\ db' = r.db
             /\ IF r.sqlstate = ""
                THEN /\ pc' = IF si + 1 > Len(stmts) THEN "commit" ELSE "batch"
                     /\ si' = si + 1
                     /\ log' = Logged("ok")
                     /\ UNCHANGED err
                ELSE /\ pc' = "except"
                     /\ err' = r.sqlstate
                     /\ log' = Logged(r.sqlstate)
                     /\ UNCHANGED si
    /\ UNCHANGED <<others, runner, cfg, files, fi, stmts, conn_autocommit, ran>>

\* the with block ends normally: the transaction is committed, and load()
\* turns to the next table
WriteCommit ==
    /\ runner = "write" /\ pc = "commit"
    /\ db' = DbCommit(db)
    /\ fi' = fi + 1
    /\ pc' = "table"
    /\ UNCHANGED <<others, runner, cfg, files, stmts, si, conn_autocommit, err, log, ran>>

\* the with block is left by the exception: the transaction is rolled back,
\* and the exception leaves load()
WriteExcept ==
    /\ runner = "write" /\ pc = "except"
    /\ db' = DbRollback(db)
    /\ pc' = "raised"
    /\ UNCHANGED <<others, runner, cfg, files, fi, stmts, si, conn_autocommit, err, log, ran>>

MaxRows == 3        \* rows of a dataset

\* the dataset maps of n datasets to write, under the first keys of the plan
WriteDictDfs(n) ==
    {[k \in 1..n |-> [key |-> Key(SavhSpecs[k]),
                      columns |-> <<Word("a"), Word("b")>>,
                      rows |-> rs[k]]] : rs \in [1..n -> 1..MaxRows]}

InitWrite ==
    /\ phase = "write"
    /\ SplitIdle
    /\ PlanIdle
    /\ QuoteIdle
    /\ runner = "write"
    /\ cfg \in [chunksize : 1..MaxRows]
    /\ files = <<>>
    /\ pc = "table"
    /\ fi = 1
    /\ stmts = <<>>
    /\ si = 0
    /\ db = DbInit
    /\ conn_autocommit = FALSE
    /\ err = "none"
    /\ log = <<>>
    /\ ran = <<>>
    /\ args = NoArgs
    /\ skip_specs = {}
    /\ dict_df \in UNION {WriteDictDfs(n) : n \in 1..MaxKeys}
    /\ pg = NoDatabase
    /\ lpc = "idle"
    /\ ddl_needed = FALSE
    /\ load_plan = NoPlan
    /\ li = 0
    /\ loaded_tables = <<>>
    /\ loaded_keys = {}
    /\ rows_by_table = <<>>
    /\ outcome = "none"
    /\ ops = <<>>

NextWrite ==
    \/ WriteNextTable
    \/ WriteBatch
    \/ WriteCommit
    \/ WriteExcept

SpecWrite == InitWrite /\ [][NextWrite]_vars

-----------------------------------------------------------------------------
(* Inputs of the splitter *)

\* the longest text, in tokens
MaxTok == 3

\* the most blank lines put before the two SELECTs
MaxBlank == 3

Tokens ==
    { <<SQ>>, <<DQ>>, <<"-">>, <<"/">>, <<"*">>, <<"$">>, <<";">>,
      <<NL>>, <<SP>>, <<"a">>, <<BOM>>,
      <<"-", "-">>, <<"/", "*">>, <<"*", "/">>, <<"$", "$">>,
      <<"$", "a", "$">> }

TokenTexts == { Flatten(ts) : ts \in UNION { [1..k -> Tokens] : k \in 0..MaxTok } }

\* "SELECT 1; SELECT 2;"
TwoSelects ==
    <<"S","E","L","E","C","T",SP,"1",";",SP,"S","E","L","E","C","T",SP,"2",";">>

\* "-- only a comment\n"
OnlyAComment ==
    <<"-","-",SP,"o","n","l","y",SP,"a",SP,"c","o","m","m","e","n","t",NL>>

BlankLines(k) == [x \in 1..k |-> NL]

SampleTexts ==
    { BlankLines(k) \o TwoSelects : k \in 0..MaxBlank } \cup { OnlyAComment }


-----------------------------------------------------------------------------
(* Specification of the splitter: a text is chosen, then split *)


InitSplit ==
    /\ phase = "input"
    /\ sql \in TokenTexts \cup SampleTexts
    /\ scan = NotRun
    /\ PlanIdle
    /\ RunIdle
    /\ QuoteIdle
    /\ LoadIdle

Split ==
    /\ phase = "input"
    /\ phase' = "split"
    /\ scan' = SplitSqlStatements(sql)
    /\ UNCHANGED <<sql, planVars, runVars, loadVars, quoteVars>>

NextSplit == Split

SpecSplit == InitSplit /\ [][NextSplit]_vars

-----------------------------------------------------------------------------
(* Specification of the plan builder: TableSpecs are chosen, the plan built *)

InitPlan ==
    /\ phase = "input"
    /\ specs \in SpecLists
    /\ plan = NoPlan
    /\ SplitIdle
    /\ RunIdle
    /\ QuoteIdle
    /\ LoadIdle

BuildPlan ==
    /\ phase = "input"
    /\ phase' = "plan"
    /\ plan' = LoadPlanOrder(specs)
    /\ UNCHANGED <<specs, splitVars, runVars, loadVars, quoteVars>>

NextPlan == BuildPlan

SpecPlan == InitPlan /\ [][NextPlan]_vars

-----------------------------------------------------------------------------
(* Properties of the splitter *)

\* the emitted statements
Out == scan.st.out

\* position p is the place of a flush() of the loop
CutAt(r, p) == \E k \in 1..Len(r.cuts) : r.cuts[k].pos = p

\* position p is a delimiter whose statement was empty and was dropped
DroppedDelimiter(r, p) ==
    \E k \in 1..Len(r.cuts) : r.cuts[k].pos = p /\ ~r.cuts[k].emitted

\* a semicolon inside a quoted string, a quoted identifier, a comment or a
\* dollar-quoted block
ProtectedSemicolon(r, p) == r.text[p] = ";" /\ r.cls[p] # "code"

\* the statements whose text covers position p behind their first character
\* and hold the semicolon of p at that place
Holders(r, p) ==
    { k \in 1..Len(r.spans) :
        /\ r.spans[k].lo < p
        /\ p <= r.spans[k].hi
        /\ r.st.out[k].sql[p - r.spans[k].lo + 1] = ";" }

Substantial(r, p) ==
    /\ r.cls[p] \notin {"lc", "bc"}
    /\ ~IsSpace(r.text[p])
    /\ r.text[p] # ";"

\* C2: a text of comments and blanks only yields no statement, and no emitted
\* statement consists of comments, blanks and semicolons only.
C2_NoCommentOnlyStatement ==
    phase = "split" =>
        /\ (\A p \in 1..Len(scan.text) :
               scan.cls[p] \in {"lc", "bc"} \/ IsSpace(scan.text[p]))
           => Out = <<>>
        /\ \A k \in 1..Len(scan.spans) :
              \E p \in scan.spans[k].lo .. scan.spans[k].hi : Substantial(scan, p)

\* C3: k blank lines followed by "SELECT 1; SELECT 2;" give exactly two
\* statements, both with start_line k + 1.
C3_TwoSelectsStartLine ==
    phase = "split" =>
        \A k \in 0..MaxBlank :
            sql = BlankLines(k) \o TwoSelects =>
                /\ Len(Out) = 2
                /\ Out[1].start_line = k + 1
                /\ Out[2].start_line = k + 1

\* the regions of a text are all closed when it ends (a line comment is
\* closed by the end of the text)
Balanced(r) == Mode(r.st) \in {"code", "lc"}

\* position p holds a character of a token: any character of a quoted or
\* dollar-quoted region, or a character of plain code that is neither blank
\* nor the delimiter of an empty statement
TokenChar(r, p) ==
    \/ r.cls[p] \in {"sq", "dq", "dollar"}
    \/ /\ r.cls[p] = "code"
       /\ ~IsSpace(r.text[p])
       /\ ~DroppedDelimiter(r, p)

RECURSIVE TokenCharsFrom(_, _)
TokenCharsFrom(r, p) ==
    IF p > Len(r.text) THEN <<>>
    ELSE (IF TokenChar(r, p) THEN <<r.text[p]>> ELSE <<>>)
         \o TokenCharsFrom(r, p + 1)

\* the characters of the non-comment, non-blank tokens of a text, in order
TokenChars(t) == TokenCharsFrom(Lex(t), 1)

RECURSIVE Concat(_)
\* the statement texts, concatenated in order
Concat(out) == IF out = <<>> THEN <<>> ELSE Head(out).sql \o Concat(Tail(out))

\* the text without the byte-order mark that may open it
WithoutLeadingBOM(t) == IF t # <<>> /\ Head(t) = BOM THEN Tail(t) ELSE t

\* C4: for a text with balanced quotes, comments and dollar tags, the
\* concatenation of the emitted statement texts holds the characters of every
\* non-comment, non-blank token of the text, once each and in the text's
\* order.
C4_RoundTrip ==
    phase = "split" =>
        (Balanced(Lex(WithoutLeadingBOM(sql))) =>
            TokenChars(Concat(Out)) = TokenChars(WithoutLeadingBOM(sql)))

\* the same for the texts that hold U+FEFF nowhere behind their first
\* character: there the round trip holds
RoundTripWithoutInnerBOM ==
    phase = "split" =>
        ((/\ Balanced(Lex(WithoutLeadingBOM(sql)))
          /\ ReplaceBOM(WithoutLeadingBOM(sql)) = WithoutLeadingBOM(sql)) =>
            TokenChars(Concat(Out)) = TokenChars(WithoutLeadingBOM(sql)))

-----------------------------------------------------------------------------
(* Properties of the plan builder *)

UniqueNames(ss) ==
    \A i, j \in 1..Len(ss) : ss[i].name = ss[j].name => i = j

\* every depends_on name is the name of a spec of the plan
Resolvable(ss) == \A i \in 1..Len(ss) : ss[i].depends_on \subseteq NameSet(ss)

\* the dependencies declared for a name, by every spec of that name
DeclaredDeps(ss, nm) ==
    UNION { ss[k].depends_on : k \in { i \in 1..Len(ss) : ss[i].name = nm } }

\* a set of names each of which depends on a name of the set: the names of a
\* cycle (a self-dependency included), with names that wait behind it
Stuck(ss, S) == S # {} /\ \A nm \in S : DeclaredDeps(ss, nm) \cap S # {}

HasCycle(ss) == \E S \in SUBSET NameSet(ss) : Stuck(ss, S)

\* the names that no order can place
Unorderable(ss) == UNION { S \in SUBSET NameSet(ss) : Stuck(ss, S) }

\* C5: for TableSpecs with unique names, resolvable depends_on names and no
\* cycle, LoadPlan.order holds every spec exactly once and every spec comes
\* after all the specs named in its depends_on.
C5_OrderRespectsDependencies ==
    (phase = "plan" /\ UniqueNames(specs) /\ Resolvable(specs) /\ ~HasCycle(specs)) =>
        /\ plan.error = "none"
        /\ Len(plan.order) = Len(specs)
        /\ \A i \in 1..Len(specs) :
              Cardinality({ k \in 1..Len(plan.order) : plan.order[k] = specs[i] }) = 1
        /\ \A k \in 1..Len(plan.order) :
              \A d \in plan.order[k].depends_on :
                  \E j \in 1..(k - 1) : plan.order[j].name = d

\* C5 witness: C (on A and B), B (on A) and A were given in that order and
\* the plan came out as A, B, C.
C5_Witness ==
    /\ phase = "plan"
    /\ specs = << [name |-> "C", depends_on |-> {"A", "B"}],
                  [name |-> "B", depends_on |-> {"A"}],
                  [name |-> "A", depends_on |-> {}] >>
    /\ plan.error = "none"
    /\ [k \in 1..Len(plan.order) |-> plan.order[k].name] = <<"A", "B", "C">>

\* the error of a missing dependency: it names a dependency no spec has and
\* a spec that requires it
MissingReported ==
    /\ plan.error = "missing"
    /\ plan.order = <<>>
    /\ plan.dep \notin NameSet(specs)
    /\ \E i \in 1..Len(specs) :
          specs[i].name = plan.required_by /\ plan.dep \in specs[i].depends_on

\* the error of a cycle lists exactly the names that cannot be ordered, each
\* with the dependencies it still waits for
CycleListed ==
    plan.cyclic = { <<nm, DeclaredDeps(specs, nm) \cap Unorderable(specs)>> :
                      nm \in Unorderable(specs) }

\* C6 as stated: a missing dependency and a cycle both end the construction
\* with a LoadPlanError and no order; for a cycle the error lists exactly the
\* specs that could not be ordered with their unresolved dependencies.
C6_PlanErrorsAsStated ==
    phase = "plan" =>
        /\ ~Resolvable(specs) => MissingReported
        /\ (Resolvable(specs) /\ HasCycle(specs)) =>
              /\ plan.error = "cycle"
              /\ plan.order = <<>>
              /\ CycleListed

\* C6 as amended: the same, the listing of the cycle being exact when the
\* spec names are unique.
C6_PlanErrors ==
    phase = "plan" =>
        /\ ~Resolvable(specs) => MissingReported
        /\ (Resolvable(specs) /\ HasCycle(specs)) =>
              /\ plan.error = "cycle"
              /\ plan.order = <<>>
              /\ UniqueNames(specs) => CycleListed

\* C6 witness: A depends on B, B on A, and C on nothing; the error lists A
\* and B with their dependencies, and not C.
C6_Witness ==
    /\ phase = "plan"
    /\ specs = << [name |-> "A", depends_on |-> {"B"}],
                  [name |-> "B", depends_on |-> {"A"}],
                  [name |-> "C", depends_on |-> {}] >>
    /\ plan.error = "cycle"
    /\ plan.cyclic = { <<"A", {"B"}>>, <<"B", {"A"}>> }

-----------------------------------------------------------------------------
(* Properties of the script runners *)

\* a statement that is executed and raises nothing by itself
Succeeds(text) == text # <<>> /\ ~IsMetaCommand(text) /\ Raises(text) = ""

\* a statement that is executed and raises by itself
Fails(text) == text # <<>> /\ ~IsMetaCommand(text) /\ Raises(text) # ""

\* the effects of the succeeding statements of file f
GoodIn(f) ==
    IF ~files[f].exists THEN {}
    ELSE LET sts == StatementsOf(files[f])
         IN {<<f, i>> : i \in {j \in 1..Len(sts) : Succeeds(StmtClean(sts[j]))}}

\* the effects of all statements of file f
AnyIn(f) == {<<f, i>> : i \in 1..MaxStmts + 1}

FileIndices == 1..Len(files)

AllExist == \A f \in FileIndices : files[f].exists

StatementError(e) == e \notin {"none", "FileNotFoundError"}

ErrorResult(r) == r \notin {"ok", "skipped", "ignored"}

\* statement a of the log comes before statement b in the source
Before(a, b) == a.file < b.file \/ (a.file = b.file /\ a.idx < b.idx)

LogInSourceOrder ==
    \A a, b \in 1..Len(log) : a < b => Before(log[a], log[b])

OkLogged == {<<log[k].file, log[k].idx>> : k \in {j \in 1..Len(log) : log[j].result = "ok"}}

FailedLogged ==
    {<<log[k].file, log[k].idx>> : k \in {j \in 1..Len(log) : ErrorResult(log[j].result)}}

ContinueOnError ==
    /\ runner = "ddl"
    /\ ~cfg.fail_fast /\ ~cfg.autocommit
    /\ cfg.dir_exists
    /\ cfg.skip_missing \/ AllExist

\* C7: DDLRunner with fail_fast=False on a non-autocommit connection never
\* raises because of a statement: the succeeding statements are executed in
\* source order and, when run() returns, their effects and only theirs are
\* committed; after a failing statement the transaction is back at the
\* statement's savepoint, holding the effects of the statements that
\* succeeded before it in the file.
C7_ContinueOnError ==
    ContinueOnError =>
        /\ pc \notin {"except", "raised"}
        /\ err = "none"
        /\ LogInSourceOrder
        /\ pc = "done" =>
            /\ db.committed = UNION {GoodIn(f) : f \in FileIndices}
            /\ db.pending = {}
            /\ OkLogged = db.committed
        /\ pc = "sp_release_failed" =>
            /\ db.status = "open"
            /\ db.pending = {e \in GoodIn(fi) : e[2] < si}
        /\ FailedLogged \cap (db.committed \cup db.pending) = {}

OneFile(snippets) == <<[exists |-> TRUE, text |-> Flatten(snippets)]>>

C7_Witness ==
    /\ ContinueOnError
    /\ files = OneFile(<<GoodStmt, BadStmt, GoodStmt>>)
    /\ pc = "done"
    /\ db.committed = {<<1, 1>>, <<1, 3>>}
    /\ Len(log) = 3 /\ log[2].result = SyntaxError

AbortOnError ==
    /\ runner \in {"ddl", "sql"}
    /\ cfg.fail_fast
    /\ cfg.ignore_sqlstates = {}
    /\ cfg.dir_exists

\* what abort-on-error promises once a statement has failed
AbortsCleanly ==
    /\ FailedLogged # {} =>
        /\ pc \in {"except", "raised"}
        /\ log[Len(log)] = [file |-> fi, idx |-> si, result |-> err]
        /\ FailedLogged = {<<fi, si>>}
        /\ \A k \in 1..Len(ran) : ran[k] <= fi
    /\ (pc = "raised" /\ StatementError(err)) =>
        /\ FailedLogged = {<<fi, si>>}
        /\ db.pending = {}
        /\ db.committed \cap AnyIn(fi) = {}
        /\ db.committed = UNION {GoodIn(f) : f \in 1..(fi - 1)}

\* C8 as stated: under fail_fast=True with no ignorable codes, in
\* DDLRunner.run and in run_sql_files, the first failing statement's error
\* propagates, nothing after it is executed, no statement of the failing file
\* leaves an effect and the files completed before stay committed.
C8_AbortOnErrorAsStated == AbortOnError => AbortsCleanly

\* C8: the same, for DDLRunner.run called with autocommit=False and for
\* run_sql_files.
C8_AbortOnError ==
    (AbortOnError /\ (runner = "ddl" => ~cfg.autocommit)) => AbortsCleanly

C8_Witness ==
    /\ AbortOnError
    /\ runner = "ddl" /\ ~cfg.autocommit
    /\ files = OneFile(<<GoodStmt>>) \o OneFile(<<GoodStmt, BadStmt>>)
    /\ pc = "raised"
    /\ err = SyntaxError
    /\ db.committed = {<<1, 1>>}

\* every failure the file's statements raise by themselves is ignorable
OnlyIgnorableFailures(f) ==
    /\ files[f].exists
    /\ \A i \in 1..Len(StatementsOf(files[f])) :
        LET text == StmtClean(StatementsOf(files[f])[i])
        IN Fails(text) => Ignored(Raises(text), cfg.ignore_sqlstates)

\* file f has been left by the loop of run_sql_files
FileEnded(f) == fi > f \/ (fi = f /\ pc = "raised")

\* C9: in run_sql_files a statement failing with a SQLSTATE of
\* ignore_sqlstates does not raise: the statements after it in the file are
\* executed, the work of the statements that succeeded in the file is not
\* rolled back, and it is committed when the file ends.
C9_IgnoredErrorKeepsWork ==
    (runner = "sql" /\ cfg.dir_exists) =>
        \A f \in FileIndices :
            OnlyIgnorableFailures(f) =>
                /\ (fi = f => pc \notin {"except", "raised"})
                /\ \A k \in 1..Len(log) :
                       log[k].file = f => ~ErrorResult(log[k].result)
                /\ FileEnded(f) => GoodIn(f) \subseteq db.committed

\* the indices, in increasing order, of the first n files that exist
RECURSIVE ExistingUpTo(_)
ExistingUpTo(n) ==
    IF n = 0 THEN <<>>
    ELSE IF files[n].exists THEN Append(ExistingUpTo(n - 1), n)
    ELSE ExistingUpTo(n - 1)

\* C10: DDLRunner.run raises FileNotFoundError at the first listed file that
\* does not exist when skip_missing is False, and runs no file after it; when
\* skip_missing is True it raises no FileNotFoundError, passes over the
\* missing files and runs every existing file it comes to, in list order:
\* all of them when it returns.
C10_MissingFile ==
    (runner = "ddl" /\ cfg.dir_exists) =>
        /\ ~cfg.skip_missing =>
            /\ \A f \in 1..(fi - 1) : f <= Len(files) => files[f].exists
            /\ err = "FileNotFoundError" =>
                /\ pc \in {"except", "raised"}
                /\ ~files[fi].exists
                /\ ran = ExistingUpTo(fi - 1)
            /\ (pc \in {"stmt", "commit", "done"} \/ fi > Len(files)) =>
                \A f \in FileIndices : f <= fi => files[f].exists
        /\ cfg.skip_missing =>
            /\ err # "FileNotFoundError"
            /\ pc \in {"file", "done"} =>
                ran = ExistingUpTo(IF fi > Len(files) THEN Len(files) ELSE fi - 1)
            /\ pc = "done" => ran = ExistingUpTo(Len(files))

C10_Witness ==
    /\ runner = "ddl" /\ cfg.dir_exists /\ cfg.skip_missing
    /\ files = <<MissingFile>> \o OneFile(<<GoodStmt>>)
    /\ pc = "done"
    /\ ran = <<2>>
    /\ db.committed = {<<2, 1>>}

-----------------------------------------------------------------------------
(* Properties of load() *)

\* the phases of load(), in the order of the text of the specification
PhaseOrder ==
    <<"reset", "pre_ddl", "plan_pass", "fallback", "sync", "post_ddl", "analyze">>

Rank(ph) == CHOOSE k \in 1..Len(PhaseOrder) : PhaseOrder[k] = ph

\* the operations of the phase ph, as indices of ops
OpsOf(ph) == {i \in 1..Len(ops) : ops[i].phase = ph}

Returned == phase = "load" /\ lpc = "done"

Raised == phase = "load" /\ lpc = "raised"

\* C11: in every run of load() the database operations occur in the order
\* reset, pre-DDL scripts, inserts of the plan pass, inserts of the fallback
\* pass, sequence syncs, post-DDL scripts, ANALYZE: no operation of an
\* earlier phase comes after an operation of a later phase.
C11_PhaseOrder ==
    phase = "load" =>
        \A i \in 1..(Len(ops) - 1) : Rank(ops[i].phase) <= Rank(ops[i + 1].phase)

\* a run that returned after operations of all seven phases
C11_Witness ==
    /\ Returned
    /\ \A k \in 1..Len(PhaseOrder) : OpsOf(PhaseOrder[k]) # {}

RanPreDdl == OpsOf("pre_ddl") # {}

RanPostDdl == OpsOf("post_ddl") # {}

\* the truncate reset found no base table: no TRUNCATE was issued
ZeroTablesFound == \A i \in 1..Len(ops) : ops[i].op # "truncate"

PreDdlDue ==
    \/ args.load_mode = "drop_create"
    \/ args.load_mode = "truncate" /\ ZeroTablesFound

\* C12: a run of load() that comes past the pre-DDL step has run the pre-DDL
\* scripts if and only if the mode is drop_create, or the mode is truncate
\* and no base table was found; and, ddl_only not set, a run that comes past
\* the post-DDL step has run the post-DDL scripts if and only if it ran the
\* pre-DDL scripts.
C12_DdlWhenNeeded ==
    phase = "load" =>
        /\ RanPreDdl => PreDdlDue
        /\ lpc \notin {"reset", "pre_ddl", "raised"} => (RanPreDdl <=> PreDdlDue)
        /\ RanPostDdl => RanPreDdl /\ ~args.ddl_only
        /\ ~args.ddl_only /\ lpc \in {"analyze", "done"} => (RanPostDdl <=> RanPreDdl)

\* a truncate run that found no table, ran both sets of scripts and returned
C12_Witness ==
    /\ Returned
    /\ args.load_mode = "truncate"
    /\ ~args.ddl_only
    /\ RanPreDdl
    /\ RanPostDdl

EmptyLoadResult == [tables_loaded |-> 0, rows_loaded |-> 0, rows_by_table |-> <<>>]

\* the operations that are neither of the reset nor of the pre-DDL
LaterOps == {i \in 1..Len(ops) : ops[i].phase \notin {"reset", "pre_ddl"}}

\* the reset of the mode was performed: the three schemas dropped, or created
ResetDone ==
    \A k \in 1..Len(Schemas) :
        ops[k] = Op("reset",
                    IF args.load_mode = "drop_create" THEN "drop_schema" ELSE "create_schema",
                    Schemas[k])

\* C13: with ddl_only set, load() performs the reset and, when needed, the
\* pre-DDL, and what it returns is a LoadResult of 0 tables, 0 rows and an
\* empty map; it inserts no row, syncs no sequence and runs no post-DDL
\* script and no ANALYZE.
C13_DdlOnly ==
    phase = "load" /\ args.ddl_only =>
        /\ LaterOps = {}
        /\ loaded_tables = <<>>
        /\ lpc \notin {"plan_pass", "fallback", "sync", "post_ddl", "analyze"}
        /\ lpc = "done" =>
              /\ outcome = EmptyLoadResult
              /\ ResetDone
              /\ RanPreDdl <=> PreDdlDue

\* a DDL-only run that ran the pre-DDL scripts and returned
C13_Witness ==
    /\ Returned
    /\ args.ddl_only
    /\ args.analyze
    /\ dict_df # <<>>
    /\ RanPreDdl
    /\ outcome = EmptyLoadResult

\* the post-DDL scripts in the order the specification gives: indexes,
\* foreign keys, comments, triggers
StatedPostDdlOrder ==
    <<"05_indexes.sql", "04_foreign_keys.sql", "06_comments.sql", "07_triggers.sql">>

\* the scripts of the phase ph, in the order they were executed
RECURSIVE ScriptsRun(_, _)
ScriptsRun(ph, k) ==
    IF k > Len(ops) THEN <<>>
    ELSE (IF ops[k].phase = ph /\ ops[k].op = "script" THEN <<ops[k].target>> ELSE <<>>)
         \o ScriptsRun(ph, k + 1)

IsPrefix(s, t) == Len(s) <= Len(t) /\ s = SubSeq(t, 1, Len(s))

\* C14: when the post-DDL phase runs, its scripts are executed in the order
\* indexes, foreign keys, comments, triggers.
C14_PostDdlOrder ==
    phase = "load" => IsPrefix(ScriptsRun("post_ddl", 1), StatedPostDdlOrder)

\* the inserts that were committed, as indices of ops
Inserts == {i \in 1..Len(ops) : ops[i].op = "insert"}

\* the name of the table an insert writes
TableOf(i) == ops[i].target[2]

\* depends_on of the TableSpec of the table t, nothing when the plan has none
DependsOn(t) ==
    UNION {SavhSpecs[k].depends_on : k \in {j \in 1..Len(SavhSpecs) : SavhSpecs[j].name = t}}

\* C15: whenever a table T is written, every table of T's depends_on that is
\* written in the run was written, and committed, before: no dependency of T
\* is written after T, in the plan pass or in the fallback pass.
C15_DependenciesFirst ==
    phase = "load" =>
        \A i, j \in Inserts : i < j => TableOf(j) \notin DependsOn(TableOf(i))

\* the tables whose TableSpec in the plan is in SKIP mode
SkippedByMode == {load_plan.order[k].name : k \in {j \in 1..Len(load_plan.order) : load_plan.order[j].mode = SKIP}}

Turn ==
    LET j == IF lpc = "plan_pass" THEN NextPlanned(load_plan.order, li, dict_df) ELSE 0
    IN IF j # 0
       THEN <<[table |-> load_plan.order[j].name, key |-> Key(load_plan.order[j])]>>
       ELSE IF /\ lpc = "fallback"
               /\ li <= Len(dict_df)
               /\ dict_df[li].key \notin loaded_keys
               /\ FallbackTable(pg, dict_df[li].key) # <<>>
       THEN <<[table |-> FallbackTable(pg, dict_df[li].key), key |-> dict_df[li].key]>>
       ELSE <<>>

\* the destination columns that are non-nullable, without default and not
\* identity
MustHave(meta) ==
    {meta[k].name : k \in {j \in 1..Len(meta) :
        meta[j].is_nullable = FALSE /\ meta[j].has_default = FALSE /\ meta[j].is_identity = FALSE}}

\* the labels of a dataset, stripped
LabelsOf(d) == {Strip(d.columns[k]) : k \in 1..Len(d.columns)}

\* the dataset d, to be written to schema.table, lacks a required column
LacksRequired(d, schema, table) ==
    MustHave(GetTableColumnsMeta(pg, schema, table)) \ LabelsOf(d) # {}

\* _load_one is about to validate a dataset that lacks a required column
MissingRequiredNext ==
    LET turn == Turn
    IN /\ phase = "load"
       /\ turn # <<>>
       /\ HasKey(dict_df, turn[1].key)
       /\ ~IsEmpty(Dataset(dict_df, turn[1].key))
       /\ TableExists(pg, SchemaForTable(turn[1].table), turn[1].table)
       /\ LacksRequired(Dataset(dict_df, turn[1].key),
                        SchemaForTable(turn[1].table), turn[1].table)

\* C17: when the dataset load() comes to write lacks a destination column
\* that is non-nullable, has no default and is not identity, load() raises
\* and writes no row of it; the run stops there: after the raise nothing is
\* written, synced or run, and what was written before stays as committed.
C17_MissingRequiredAborts ==
    [][ /\ MissingRequiredNext =>
              /\ lpc' = "raised"
              /\ outcome' = "ValueError"
              /\ UNCHANGED <<pg, ops, loaded_tables, rows_by_table>>
        /\ Raised => UNCHANGED <<pg, ops, loaded_tables, rows_by_table, lpc, outcome>>
      ]_vars

\* a run stopped by a dataset without the required column, after the write
\* of another table
C17_Witness ==
    /\ Raised
    /\ outcome = "ValueError"
    /\ Len(loaded_tables) = 1
    /\ pg.rows[loaded_tables[1]] > 0
    /\ \E k \in 1..Len(dict_df) :
          /\ dict_df[k].key \notin loaded_keys
          /\ Word("a") \notin LabelsOf(dict_df[k])
          /\ ~IsEmpty(dict_df[k])
    /\ OpsOf("sync") = {}
    /\ OpsOf("post_ddl") = {}

-----------------------------------------------------------------------------
(* Properties of _load_one taken alone *)

\* the position of the column named nm in the destination table
PositionIn(meta, nm) == CHOOSE k \in 1..Len(meta) : meta[k].name = nm

DestinationNames(meta) == {meta[k].name : k \in 1..Len(meta)}

\* the dataset has a column no destination column is named after
HasExtra(d, meta) == LabelsOf(d) \ DestinationNames(meta) # {}

HasRequired(d, meta) == MustHave(meta) \subseteq LabelsOf(d)

\* the written columns w are the destination columns the dataset d has, once
\* each, in the destination's order, each with the data of the dataset's
\* column of that label
WrittenAligned(w, d, meta) ==
    /\ {w[k].name : k \in 1..Len(w)} = DestinationNames(meta) \cap LabelsOf(d)
    /\ \A i, j \in 1..Len(w) :
          i < j => PositionIn(meta, w[i].name) < PositionIn(meta, w[j].name)
    /\ \A k \in 1..Len(w) : Strip(d.columns[w[k].src]) = w[k].name

-----------------------------------------------------------------------------
(* Properties of load(), continued *)

PlanBuilt == phase = "load" /\ load_plan.error = "none"

\* the destination of the planned table s
Destination(s) == <<SchemaForTable(s.name), s.name>>

\* the plan pass skips the planned table s: its key is not in the dataset
\* map, its dataset is empty, or its destination table does not exist
Skippable(s) ==
    \/ \A k \in 1..Len(dict_df) : dict_df[k].key # Key(s)
    \/ \E k \in 1..Len(dict_df) :
          dict_df[k].key = Key(s) /\ (dict_df[k].rows = 0 \/ dict_df[k].columns = <<>>)
    \/ Destination(s) \notin pg.tables

\* the inserts into the table t, by the pass ph
InsertsInto(t, ph) == {i \in Inserts : ops[i].target = t /\ ops[i].phase = ph}

\* the tables written, reported in a result, or given a sequence sync
Touched ==
    {ops[i].target : i \in Inserts \cup OpsOf("sync")}
        \cup DOMAIN rows_by_table
        \cup (IF lpc = "done" THEN DOMAIN outcome.rows_by_table ELSE {})

\* t is the destination of a planned table that the plan pass skips
SkippedPlanned(t) ==
    \E k \in 1..Len(load_plan.order) :
        /\ load_plan.order[k].name = t[2]
        /\ Destination(load_plan.order[k]) = t
        /\ Skippable(load_plan.order[k])

\* the call of _load_one for a planned table to skip returns without raising
\* and without writing, and the plan pass goes on
SkipStep ==
    LET turn == Turn
    IN /\ PlanBuilt
       /\ lpc = "plan_pass"
       /\ turn # <<>>
       /\ \E k \in 1..Len(load_plan.order) :
             load_plan.order[k].name = turn[1].table /\ Skippable(load_plan.order[k])
       => /\ lpc' = "plan_pass"
          /\ li' > li
          /\ UNCHANGED <<pg, ops, loaded_tables, rows_by_table, outcome>>

\* no table that is written, reported or synced is a planned table that the
\* plan pass skips
SkippedUntouched == PlanBuilt => \A t \in Touched : ~SkippedPlanned(t)

\* a planned table that the plan pass skips is written, reported or synced
\* only when the fallback pass, and not the plan pass, wrote it
SkippedUntouchedByPlanPass ==
    PlanBuilt =>
        \A t \in Touched :
            SkippedPlanned(t) =>
                /\ InsertsInto(t, "plan_pass") = {}
                /\ InsertsInto(t, "fallback") # {}

\* C19 as stated: a planned table that the plan pass skips is skipped
\* without raising, nothing is written to it in the run, it is in no
\* LoadResult and gets no sequence sync, and the plan pass goes on.
C19_SkippedAsStated == [][SkipStep /\ SkippedUntouched']_vars

\* C19: a planned table that the plan pass skips is skipped without raising
\* and the plan pass writes nothing to it and goes on; unless the fallback
\* pass writes the table from a dataset under another key, nothing is
\* written to it, it is in no LoadResult and gets no sequence sync.
C19_Skipped == [][SkipStep /\ SkippedUntouchedByPlanPass']_vars

\* dim_tipos_egreso skipped for its empty dataset, egresos written after it,
\* and the run returned
C19_Witness ==
    /\ Returned
    /\ \E k \in 1..Len(dict_df) :
          dict_df[k].key = Word("dim_tipos_egresos") /\ dict_df[k].rows = 0
    /\ InsertsInto(<<CoreSchema, Word("egresos")>>, "plan_pass") # {}
    /\ <<CoreSchema, Word("dim_tipos_egreso")>> \in pg.tables
    /\ DOMAIN outcome.rows_by_table = {<<CoreSchema, Word("egresos")>>}

\* the datasets whose key is schema.table, the table existing in that schema:
\* indices of dict_df
Qualified ==
    {k \in 1..Len(dict_df) :
        /\ HasDot(dict_df[k].key)
        /\ Len(SplitAtDot(dict_df[k].key).sch) = 1
        /\ SplitAtDot(dict_df[k].key).tbl # <<>>
        /\ <<SplitAtDot(dict_df[k].key).sch[1], SplitAtDot(dict_df[k].key).tbl>> \in pg.tables}

\* the table a qualified key names
NamedBy(key) == <<SplitAtDot(key).sch[1], SplitAtDot(key).tbl>>

\* C20: in the fallback pass a dataset whose key is schema.table, the table
\* existing in that schema, is written into the table of that schema and
\* into no table of another schema.
C20_ExplicitSchema ==
    phase = "load" =>
        /\ \A i \in Inserts :
              HasDot(ops[i].key) => ops[i].target = NamedBy(ops[i].key)
        /\ ~args.ddl_only /\ lpc \in {"sync", "post_ddl", "analyze", "done"} =>
              \A k \in Qualified :
                  ~IsEmpty(dict_df[k]) /\ LabelsOf(dict_df[k]) = {Word("a"), Word("b")}
                      => InsertsInto(NamedBy(dict_df[k].key), "fallback") # {}

\* the step is one of the fallback pass: a dataset key of dict_df is examined
FallbackStep == lpc = "fallback" /\ li <= Len(dict_df)

\* C21: a load error for one dataset in the fallback pass (a validation
\* failure or an insert failure) does not abort the run: after the step the
\* run is still in the fallback pass, with the remaining keys ahead of it, and
\* has raised nothing.
C21_FallbackErrorIsolated ==
    [][FallbackStep => lpc' = "fallback" /\ outcome' = "none"]_vars

\* the sync operations recorded so far, in order
SyncOps == SelectSeq(ops, LAMBDA o : o.phase = "sync")

\* the syncs that sync_identity_sequences left by an exception
SyncFailures == {i \in OpsOf("sync") : ops[i].synced = "raised"}

\* a step of the sync loop over loaded_tables
SyncStep == lpc = "sync" /\ li <= Len(loaded_tables)

\* C22: a sequence-sync failure never aborts the run: whatever a table's sync
\* meets (no id column, no owned sequence, SQLSTATE 42501 on setval, any other
\* error), the step raises nothing and the loop goes on to the next loaded
\* table; once the loop is over every loaded table has had its sync, in the
\* order of loaded_tables, the post-DDL scripts are run when DDL is needed,
\* and a run that no post-DDL script fails returns the LoadResult.
C22_SyncNeverAborts ==
    [][/\ SyncStep => lpc' = "sync" /\ li' = li + 1 /\ outcome' = "none"
       /\ \A case \in SyncCases \ {"other_error"} : SyncIdentitySequences(case) = "none"
       /\ lpc' \in {"post_ddl", "analyze", "done"} /\ ~args.ddl_only =>
             [k \in 1..Len(SyncOps') |-> SyncOps'[k].target] = loaded_tables'
       /\ lpc' \in {"analyze", "done"} /\ ~args.ddl_only /\ ddl_needed => RanPostDdl'
       /\ lpc = "post_ddl" /\ lpc' = "raised" => outcome' = "DDLError"
       /\ lpc = "analyze" => lpc' = "done" /\ outcome' = LoadResult(rows_by_table)]_vars

C22_Witness ==
    /\ lpc = "done"
    /\ outcome = LoadResult(rows_by_table)
    /\ Len(loaded_tables) = 2
    /\ \E i, j \in OpsOf("sync") :
          /\ i < j
          /\ ops[i].synced = "raised"
          /\ ops[j].synced = "returned"
    /\ RanPostDdl

\* C23: in a run of load() the LoadPlan is built before the run writes to the
\* database: as long as build_savh_load_plan() has not returned, no schema
\* has been dropped or created, no table truncated, no script run and no row
\* inserted.
C23_PlanBeforeWrites ==
    phase = "load" /\ load_plan = NoPlan => ops = <<>>

-----------------------------------------------------------------------------
(* Properties of the SQL built from names *)

Fixed(text) == [kind |-> "text", value |-> <<text>>]

Identifier(name) == [kind |-> "identifier", value |-> name]

\* the quoted identifier PostgreSQL reads in t after an opening quote, from
\* position i on: two double quotes stand for one, a single one ends it
RECURSIVE ReadQuoted(_, _, _)
ReadQuoted(t, i, read) ==
    IF i > Len(t) THEN [kind |-> "unterminated", value |-> read, next |-> i]
    ELSE IF t[i] # DQ THEN ReadQuoted(t, i + 1, Append(read, t[i]))
    ELSE IF i < Len(t) /\ t[i + 1] = DQ THEN ReadQuoted(t, i + 2, Append(read, DQ))
    ELSE [kind |-> "identifier", value |-> read, next |-> i + 1]

\* the statement as PostgreSQL reads it from position i on: its quoted
\* identifiers and what stands between them
RECURSIVE Lexemes(_, _)
Lexemes(t, i) ==
    IF i > Len(t) THEN <<>>
    ELSE IF t[i] = DQ
    THEN LET r == ReadQuoted(t, i + 1, <<>>)
         IN <<[kind |-> r.kind, value |-> r.value]>> \o Lexemes(t, r.next)
    ELSE <<Fixed(t[i])>> \o Lexemes(t, i + 1)

\* a table as schema.table, both quoted
QualifiedTable(schema, table) == <<Identifier(schema), Fixed("."), Identifier(table)>>

\* the statement of each kind with the given names as its identifiers
Intended(kind, n) ==
    IF kind = "drop_schema"
    THEN <<Fixed("DROP SCHEMA IF EXISTS "), Identifier(n.schema), Fixed(" CASCADE;")>>
    ELSE IF kind = "create_schema"
    THEN <<Fixed("CREATE SCHEMA IF NOT EXISTS "), Identifier(n.schema), Fixed(";")>>
    ELSE IF kind = "truncate"
    THEN <<Fixed("TRUNCATE TABLE ")>> \o QualifiedTable(n.schema, n.table)
         \o <<Fixed(", ")>> \o QualifiedTable(n.schema, <<"t">>)
         \o <<Fixed(" RESTART IDENTITY CASCADE;")>>
    ELSE <<Fixed("SELECT MAX("), Identifier(<<"i", "d">>), Fixed(") FROM ")>>
         \o QualifiedTable(n.schema, n.table) \o <<Fixed(";")>>

\* C24: every statement built from a schema or table name (schema drop,
\* schema create, truncate, sequence sync) embeds the name in double quotes
\* with every double quote inside it doubled: read back, the statement has
\* exactly the given names as its identifiers, whatever the names.
C24_NamesQuoted ==
    statement # NoStatement =>
        Lexemes(statement.text, 1) = Intended(statement.kind, idents)

-----------------------------------------------------------------------------
(* Properties of load(): the result *)

\* the rows inserted by the inserts I
RECURSIVE RowsInserted(_)
RowsInserted(I) ==
    IF I = {} THEN 0
    ELSE LET i == CHOOSE x \in I : TRUE
         IN ops[i].rows + RowsInserted(I \ {i})

\* the destination tables written in the run
TablesWritten == {ops[i].target : i \in Inserts}

\* C25: when load() returns, rows_loaded is the number of rows inserted in
\* the run, tables_loaded the number of distinct tables written, and
\* rows_by_table maps each written table to the rows inserted into it.
C25_ResultCounts ==
    Returned =>
        /\ outcome.rows_loaded = RowsInserted(Inserts)
        /\ outcome.tables_loaded = Cardinality(TablesWritten)
        /\ DOMAIN outcome.rows_by_table = TablesWritten
        /\ \A t \in TablesWritten :
              outcome.rows_by_table[t] =
                  RowsInserted({i \in Inserts : ops[i].target = t})

\* C30: in one run of load() no destination table receives more than one
\* insert: two dataset keys are never both written into the same
\* schema.table, across the plan pass and the fallback pass.
C30_OneInsertPerTable ==
    \A i, j \in Inserts : ops[i].target = ops[j].target => i = j

-----------------------------------------------------------------------------
(* Properties of DDLRunner, continued *)

\* C26: with fail_fast=False DDLRunner never propagates a statement
\* execution error, whatever the autocommit argument of run(): no run ends
\* with the error of a statement.
C26_NeverPropagates ==
    runner = "ddl" /\ ~cfg.fail_fast => ~(pc = "raised" /\ StatementError(err))

\* DDLRunner in continue-on-error mode on a transactional connection
SavepointMode == runner = "ddl" /\ ~cfg.fail_fast /\ ~cfg.autocommit

\* the positions of _run_file between SAVEPOINT sp_idx and its RELEASE
InsideSavepoint == pc \in {"sp_execute", "sp_release", "sp_rollback", "sp_release_failed"}

\* C29: in DDLRunner continue-on-error mode on a transactional connection at
\* most one savepoint is open at any time: the savepoint of a statement is
\* open only from its SAVEPOINT to its RELEASE, also when the statement failed
\* and was rolled back to it; none is open when the next statement starts or
\* when the file's commit is issued.
C29_OneSavepoint ==
    SavepointMode =>
        /\ Len(db.sps) <= 1
        /\ InsideSavepoint => Len(db.sps) = 1 /\ db.sps[1].name = si
        /\ ~InsideSavepoint => db.sps = <<>>

\* the file's commit is about to be issued after a statement that failed and
\* one that succeeded
C29_Witness ==
    /\ SavepointMode
    /\ pc = "commit"
    /\ db.sps = <<>>
    /\ \E a, b \in 1..Len(log) :
          /\ log[a].file = fi /\ log[b].file = fi
          /\ ErrorResult(log[a].result)
          /\ log[b].result = "ok"
          /\ log[a].idx < log[b].idx

-----------------------------------------------------------------------------
(* Properties of the splitter, continued *)

\* the newline characters of a text, as positions
Newlines(t) == {k \in 1..Len(t) : t[k] = NL}

\* C27: the line counter of _split_sql_statements counts every newline of
\* the input, in every scanner state, also the characters consumed as the
\* second character of a two-character token or as part of a dollar tag: when
\* the scan ends it is 1 plus the number of newlines of the input.
C27_LineCounter ==
    phase = "split" => scan.st.line = 1 + Cardinality(Newlines(sql))

\* a newline inside a dollar block, a quoted text or a block comment, and a
\* newline right after a character of such a region or of a line comment
C27_Witness ==
    /\ phase = "split"
    /\ \E k \in Newlines(scan.text) : scan.cls[k] \in {"dollar", "bc", "sq", "dq"}
    /\ \E k \in 1..Len(scan.text) : scan.cls[k] # "code" /\ k + 1 \in Newlines(scan.text)
    /\ scan.st.line = 2

-----------------------------------------------------------------------------
(* Properties of the inserts of load() *)

\* the batches of table f whose rows are in the table, for other sessions
CommittedBatches(f) == {e[2] : e \in {x \in db.committed : x[1] = f}}

AllBatches(f) == 1..Len(Batches(dict_df[f].rows, cfg.chunksize))

\* no transaction is open on the connection
NoOpenTransaction == db.status = "idle" /\ db.pending = {} /\ db.sps = <<>>

\* C28: each table's insert is one transaction: the batches of a dataset are
\* committed together, or not at all; all batches of a table are committed
\* before the next table is looked up; no transaction is open between two
\* table writes, nor when load() is left; if a batch fails, no row of its
\* dataset remains in the table, and the tables written before keep theirs.
C28_InsertIsOneTransaction ==
    runner = "write" =>
        /\ \A f \in 1..Len(dict_df) : CommittedBatches(f) \in {{}, AllBatches(f)}
        /\ \A f \in 1..Len(dict_df) : f < fi => CommittedBatches(f) = AllBatches(f)
        /\ pc \in {"table", "done", "raised"} => NoOpenTransaction
        /\ pc = "raised" => CommittedBatches(fi) = {}

\* the second batch of the second table has failed, after a first table of
\* two batches
C28_Witness ==
    /\ runner = "write" /\ pc = "raised"
    /\ fi = 2 /\ si = 2
    /\ Cardinality(AllBatches(1)) = 2
    /\ CommittedBatches(1) = {1, 2}
    /\ db.committed = {<<1, 1>>, <<1, 2>>}

====
